---- MODULE Spec2Model ----
(***************************************************************************)
(* Model of the HMAC parameter-signing protocol of paywith302-demo:        *)
(* SignatureValidator (src/app/utils/signature-validator.ts) and the       *)
(* payment routes that call it (src/app/api/payment/create/route.ts).      *)
(*                                                                         *)
(* Strings are sequences of one-character strings, so that sorting,        *)
(* percent-encoding, JSON serialisation and parseInt are computed          *)
(* character by character.  Numbers are held in hundredths (39.99 is 3999) *)
(* so that the literals of the source can be written down exactly.         *)
(***************************************************************************)
EXTENDS Integers, Sequences, FiniteSets, TLC

\* ------------------------------------------------------------------------
\* Characters
\* ------------------------------------------------------------------------

\* The printable ASCII characters U+0020 .. U+007E, in code order (the grave
\* accent is written U+0060).
Ascii ==
  << " ", "!", "\"", "#", "$", "%", "&", "'", "(", ")", "*", "+", ",", "-", ".", "/",
     "0", "1", "2", "3", "4", "5", "6", "7", "8", "9", ":", ";", "<", "=", ">", "?",
     "@", "A", "B", "C", "D", "E", "F", "G", "H", "I", "J", "K", "L", "M", "N", "O",
     "P", "Q", "R", "S", "T", "U", "V", "W", "X", "Y", "Z", "[", "\\", "]", "^", "_",
     "U+0060", "a", "b", "c", "d", "e", "f", "g", "h", "i", "j", "k", "l", "m", "n", "o",
     "p", "q", "r", "s", "t", "u", "v", "w", "x", "y", "z", "{", "|", "}", "~" >>

\* A lone high surrogate code unit (U+D800), as JSON.parse yields for "\ud800".
LoneSurrogate == "U+D800"

Chars == {Ascii[i] : i \in 1..Len(Ascii)} \cup {LoneSurrogate}

CodeTable ==
  [c \in Chars |-> IF c = LoneSurrogate THEN 55296
                   ELSE 31 + (CHOOSE i \in 1..Len(Ascii) : Ascii[i] = c)]

\* UTF-16 code unit of a character.
CharCode(c) == CodeTable[c]

DigitChars == <<"0", "1", "2", "3", "4", "5", "6", "7", "8", "9">>

DigitSet == {DigitChars[i] : i \in 1..Len(DigitChars)}

IsDigit(c) == c \in DigitSet

DigitValue(c) == CodeTable[c] - CodeTable["0"]

HexChars == <<"0", "1", "2", "3", "4", "5", "6", "7", "8", "9", "A", "B", "C", "D", "E", "F">>

\* Characters encodeURIComponent leaves alone: A-Z a-z 0-9 - _ . ! ~ * ' ( )
UriUnreserved ==
  {c \in Chars : \/ c \in DigitSet
                 \/ c \in {"-", "_", ".", "!", "~", "*", "'", "(", ")"}
                 \/ (CodeTable[c] >= 65 /\ CodeTable[c] <= 90)
                 \/ (CodeTable[c] >= 97 /\ CodeTable[c] <= 122)}

IsUriUnreserved(c) == c \in UriUnreserved

\* ------------------------------------------------------------------------
\* Strings as character sequences
\* ------------------------------------------------------------------------

RECURSIVE Flatten(_)
Flatten(ss) == IF ss = <<>> THEN <<>> ELSE Head(ss) \o Flatten(Tail(ss))

RECURSIVE JoinWith(_, _)
JoinWith(ss, sep) ==
  IF ss = <<>> THEN <<>>
  ELSE IF Len(ss) = 1 THEN Head(ss)
  ELSE Head(ss) \o sep \o JoinWith(Tail(ss), sep)

\* a < b in the order Array.prototype.sort uses without a comparator:
\* lexicographic by UTF-16 code unit, a proper prefix first.
RECURSIVE StrLess(_, _)
StrLess(a, b) ==
  IF b = <<>> THEN FALSE
  ELSE IF a = <<>> THEN TRUE
  ELSE IF Head(a) = Head(b) THEN StrLess(Tail(a), Tail(b))
  ELSE CharCode(Head(a)) < CharCode(Head(b))

RECURSIVE InsertSorted(_, _)
InsertSorted(sorted, k) ==
  IF sorted = <<>> THEN <<k>>
  ELSE IF StrLess(k, Head(sorted)) THEN <<k>> \o sorted
  ELSE <<Head(sorted)>> \o InsertSorted(Tail(sorted), k)

\* keys.sort() on an array of strings.
RECURSIVE SortStrings(_)
SortStrings(keys) ==
  IF keys = <<>> THEN <<>>
  ELSE InsertSorted(SortStrings(Tail(keys)), Head(keys))

RECURSIVE NatDigits(_)
NatDigits(n) ==
  IF n < 10 THEN <<DigitChars[n + 1]>>
  ELSE NatDigits(n \div 10) \o <<DigitChars[(n % 10) + 1]>>

Abs(n) == IF n < 0 THEN -n ELSE n

\* Number.prototype.toString of the number c/100 (c in hundredths).
NumberToString(c) ==
  LET a    == Abs(c)
      frac == a % 100
      d1   == frac \div 10
      d2   == frac % 10
  IN  (IF c < 0 THEN <<"-">> ELSE <<>>)
      \o NatDigits(a \div 100)
      \o (IF frac = 0 THEN <<>>
          ELSE <<".", DigitChars[d1 + 1]>>
               \o (IF d2 = 0 THEN <<>> ELSE <<DigitChars[d2 + 1]>>))

\* ------------------------------------------------------------------------
\* JavaScript values (ParamValue | null | undefined, and what JSON.parse yields)
\* ------------------------------------------------------------------------

Str(s)      == [t |-> "string", s |-> s]
Num(c)      == [t |-> "number", c |-> c]
Bool(b)     == [t |-> "boolean", b |-> b]
Null        == [t |-> "null"]
Undefined   == [t |-> "undefined"]
Arr(items)  == [t |-> "array", items |-> items]
\* props: the own properties [k, v] in the order the engine enumerates them
Obj(props)  == [t |-> "object", props |-> props]

\* typeof value === 'object' (null, arrays and plain objects)
TypeofObject(v) == v.t \in {"null", "array", "object"}

\* A property name that is an array index: the canonical decimal form of an
\* integer.  Own properties with such names are enumerated first, in
\* ascending numeric order, whatever the insertion order.
IsArrayIndex(k) ==
  /\ k # <<>>
  /\ \A i \in 1..Len(k) : IsDigit(k[i])
  /\ (Len(k) = 1 \/ k[1] # "0")

RECURSIVE StrToNat(_)
StrToNat(k) ==
  IF k = <<>> THEN 0
  ELSE 10 * StrToNat(SubSeq(k, 1, Len(k) - 1)) + DigitValue(k[Len(k)])

HasProperty(props, k) == \E i \in 1..Len(props) : props[i].k = k

\* CreateDataProperty(obj, k, v): what JSON.parse, an object literal with a
\* quoted or computed name, and the spread {...obj, k: v} do for each member.
DefineProperty(props, k, v) ==
  IF HasProperty(props, k)
  THEN [i \in 1..Len(props) |-> IF props[i].k = k THEN [k |-> k, v |-> v] ELSE props[i]]
  ELSE IF IsArrayIndex(k)
  THEN LET before == {i \in 1..Len(props) :
                        IsArrayIndex(props[i].k) /\ StrToNat(props[i].k) < StrToNat(k)}
           n == Cardinality(before)
       IN  SubSeq(props, 1, n) \o <<[k |-> k, v |-> v]>> \o SubSeq(props, n + 1, Len(props))
  ELSE Append(props, [k |-> k, v |-> v])

ProtoKey == <<"_", "_", "p", "r", "o", "t", "o", "_", "_">>

\* obj[k] = v on an object created by {} : the name __proto__ reaches the
\* setter inherited from Object.prototype, which changes the prototype (or
\* does nothing for a primitive v) and creates no own property.
SetProperty(props, k, v) ==
  IF k = ProtoKey /\ ~HasProperty(props, k) THEN props
  ELSE DefineProperty(props, k, v)

\* The object JSON.parse builds from its members, in the order they are written.
RECURSIVE DefineAll(_, _)
DefineAll(props, entries) ==
  IF entries = <<>> THEN props
  ELSE DefineAll(DefineProperty(props, Head(entries).k, Head(entries).v), Tail(entries))

ObjectFrom(entries) == Obj(DefineAll(<<>>, entries))

\* Object.keys(obj)
ObjectKeys(props) == [i \in 1..Len(props) |-> props[i].k]

\* obj[k]
GetProperty(props, k) ==
  IF HasProperty(props, k)
  THEN props[CHOOSE i \in 1..Len(props) : props[i].k = k].v
  ELSE Undefined

\* ToBoolean(value), as the `&& params.timestamp` test applies it.
Truthy(v) ==
  CASE v.t = "undefined" -> FALSE
    [] v.t = "null"      -> FALSE
    [] v.t = "boolean"   -> v.b
    [] v.t = "number"    -> v.c # 0
    [] v.t = "string"    -> v.s # <<>>
    [] OTHER             -> TRUE

\* String(value)
RECURSIVE ToStringJS(_)
ToStringJS(v) ==
  CASE v.t = "string"    -> v.s
    [] v.t = "number"    -> NumberToString(v.c)
    [] v.t = "boolean"   -> IF v.b THEN <<"t", "r", "u", "e">> ELSE <<"f", "a", "l", "s", "e">>
    [] v.t = "null"      -> <<"n", "u", "l", "l">>
    [] v.t = "undefined" -> <<"u", "n", "d", "e", "f", "i", "n", "e", "d">>
    [] v.t = "array"     ->
         JoinWith([i \in 1..Len(v.items) |->
                     IF v.items[i].t \in {"null", "undefined"} THEN <<>>
                     ELSE ToStringJS(v.items[i])], <<",">>)
    [] OTHER             ->
         <<"[", "o", "b", "j", "e", "c", "t", " ", "O", "b", "j", "e", "c", "t", "]">>

\* The quoted form JSON.stringify gives a string (well-formed JSON.stringify:
\* a lone surrogate is written as the escape \ud800).
RECURSIVE EscapeJSON(_)
EscapeJSON(s) ==
  IF s = <<>> THEN <<>>
  ELSE (CASE Head(s) = "\""          -> <<"\\", "\"">>
          [] Head(s) = "\\"          -> <<"\\", "\\">>
          [] Head(s) = LoneSurrogate -> <<"\\", "u", "d", "8", "0", "0">>
          [] OTHER                   -> <<Head(s)>>)
       \o EscapeJSON(Tail(s))

QuoteJSON(s) == <<"\"">> \o EscapeJSON(s) \o <<"\"">>

\* JSON.stringify(value) without indentation.  Inside an array undefined is
\* written null; inside an object a member whose value is undefined is left out.
RECURSIVE JSONStringify(_)
JSONStringify(v) ==
  CASE v.t = "string"  -> QuoteJSON(v.s)
    [] v.t = "number"  -> NumberToString(v.c)
    [] v.t = "boolean" -> ToStringJS(v)
    [] v.t = "array"   ->
         <<"[">> \o JoinWith([i \in 1..Len(v.items) |-> JSONStringify(v.items[i])], <<",">>)
                 \o <<"]">>
    [] v.t = "object"  ->
         LET kept == SelectSeq(v.props, LAMBDA p : p.v.t # "undefined")
         IN  <<"{">> \o JoinWith([i \in 1..Len(kept) |->
                                    QuoteJSON(kept[i].k) \o <<":">> \o JSONStringify(kept[i].v)],
                                 <<",">>)
                     \o <<"}">>
    [] OTHER           -> <<"n", "u", "l", "l">>

\* encodeURIComponent throws URIError on a lone surrogate.
UriEncodable(s) == \A i \in 1..Len(s) : s[i] # LoneSurrogate

PercentEncode(c) ==
  <<"%", HexChars[(CharCode(c) \div 16) + 1], HexChars[(CharCode(c) % 16) + 1]>>

\* encodeURIComponent escaping nothing.
EncodeURIComponentUnescaped(s) == s

\* encodeURIComponent(s), for s that is UriEncodable
RECURSIVE EncodeURIComponent(_)
EncodeURIComponent(s) ==
  IF s = <<>> THEN <<>>
  ELSE (IF IsUriUnreserved(Head(s)) THEN <<Head(s)>> ELSE PercentEncode(Head(s)))
       \o EncodeURIComponent(Tail(s))

\* parseInt(s, 10): leading blanks, an optional sign, then the longest run
\* of digits; NaN when there is none.
RECURSIVE SkipBlanks(_)
SkipBlanks(s) == IF s # <<>> /\ Head(s) = " " THEN SkipBlanks(Tail(s)) ELSE s

RECURSIVE DigitPrefix(_)
DigitPrefix(s) ==
  IF s # <<>> /\ IsDigit(Head(s)) THEN <<Head(s)>> \o DigitPrefix(Tail(s)) ELSE <<>>

ParseInt(s) ==
  LET t      == SkipBlanks(s)
      neg    == t # <<>> /\ Head(t) = "-"
      body   == IF t # <<>> /\ Head(t) \in {"-", "+"} THEN Tail(t) ELSE t
      digits == DigitPrefix(body)
  IN  IF digits = <<>> THEN [nan |-> TRUE, n |-> 0]
      ELSE [nan |-> FALSE, n |-> IF neg THEN -StrToNat(digits) ELSE StrToNat(digits)]

\* ------------------------------------------------------------------------
\* Optional arguments (null or a value)
\* ------------------------------------------------------------------------

None    == <<>>
Some(x) == <<x>>

\* ------------------------------------------------------------------------
\* Signatures
\* ------------------------------------------------------------------------

\* crypto.createHmac('sha256', key).update(msg).digest('hex'): a function of
\* (key, msg) taken to be collision-free, 64 hexadecimal characters long.
HexDigestLength == 64

Hmac(key, msg) == [kind |-> "hmac", key |-> key, msg |-> msg]

\* Any other string a caller may supply as a signature.
Text(s) == [kind |-> "text", key |-> <<>>, msg |-> s]

\* A supplied signature that is not a string (the field is untyped JSON).
NotAString == [kind |-> "undefined", key |-> <<>>, msg |-> <<>>]

NoSignature == [kind |-> "none", key |-> <<>>, msg |-> <<>>]

\* Buffer.from(x).length for a string x
ByteLength(x) == IF x.kind = "hmac" THEN HexDigestLength ELSE Len(x.msg)

\* ------------------------------------------------------------------------
\* SignatureValidator
\* ------------------------------------------------------------------------

KeySign      == <<"s", "i", "g", "n">>
KeySignature == <<"s", "i", "g", "n", "a", "t", "u", "r", "e">>
KeyTimestamp == <<"t", "i", "m", "e", "s", "t", "a", "m", "p">>

\* A default exclude set that forgets 'signature'.
ExcludeSignOnly == {KeySign}

DefaultExcludeKeys == {KeySign, KeySignature}

_isValidValue(value) ==
  IF value.t \in {"null", "undefined"} THEN FALSE
  ELSE IF value.t = "string" /\ value.s = <<>> THEN FALSE
  ELSE IF value.t = "object" /\ Len(ObjectKeys(value.props)) = 0 THEN FALSE
  ELSE IF value.t = "array" /\ Len(value.items) = 0 THEN FALSE
  ELSE TRUE

\* _sortObjectKeys without the sort: the keys are copied in the order found.
RECURSIVE _sortObjectKeysUnsorted(_)
RECURSIVE UnsortedInto(_, _, _)
UnsortedInto(result, keys, props) ==
  IF keys = <<>> THEN result
  ELSE UnsortedInto(Append(result, [k |-> Head(keys),
                                    v |-> _sortObjectKeysUnsorted(GetProperty(props, Head(keys)))]),
                    Tail(keys), props)

_sortObjectKeysUnsorted(obj) ==
  IF ~TypeofObject(obj) \/ obj.t = "null" THEN obj
  ELSE IF obj.t = "array"
  THEN Arr([i \in 1..Len(obj.items) |-> _sortObjectKeysUnsorted(obj.items[i])])
  ELSE Obj(UnsortedInto(<<>>, ObjectKeys(obj.props), obj.props))

RECURSIVE _sortObjectKeys(_)
RECURSIVE SortedInto(_, _, _)
\* the reduce over the sorted keys: result[key] = _sortObjectKeys(obj[key])
SortedInto(result, keys, props) ==
  IF keys = <<>> THEN result
  ELSE SortedInto(SetProperty(result, Head(keys),
                              _sortObjectKeys(GetProperty(props, Head(keys)))),
                  Tail(keys), props)

_sortObjectKeys(obj) ==
  IF ~TypeofObject(obj) \/ obj.t = "null" THEN obj
  ELSE IF obj.t = "array"
  THEN Arr([i \in 1..Len(obj.items) |-> _sortObjectKeys(obj.items[i])])
  ELSE Obj(SortedInto(<<>>, SortStrings(ObjectKeys(obj.props)), obj.props))

_normalizeValue(value) ==
  IF TypeofObject(value) /\ value.t # "null"
  THEN JSONStringify(_sortObjectKeys(value))
  ELSE ToStringJS(value)

\* _buildSignString that ends every pair with '&' instead of joining them.
_buildSignStringTerminated(params) ==
  LET sortedKeys == SortStrings(ObjectKeys(params))
      values     == [i \in 1..Len(sortedKeys) |->
                       _normalizeValue(GetProperty(params, sortedKeys[i]))]
      parts      == [i \in 1..Len(sortedKeys) |->
                       EncodeURIComponent(sortedKeys[i]) \o <<"=">>
                         \o EncodeURIComponent(values[i]) \o <<"&">>]
  IN  IF \E i \in 1..Len(sortedKeys) :
           ~UriEncodable(sortedKeys[i]) \/ ~UriEncodable(values[i])
      THEN [threw |-> TRUE, s |-> <<>>]
      ELSE [threw |-> FALSE, s |-> Flatten(parts)]

\* [threw, s]: encodeURIComponent throws on a key or value it cannot encode.
_buildSignString(params) ==
  LET sortedKeys == SortStrings(ObjectKeys(params))
      values     == [i \in 1..Len(sortedKeys) |->
                       _normalizeValue(GetProperty(params, sortedKeys[i]))]
      parts      == [i \in 1..Len(sortedKeys) |->
                       EncodeURIComponent(sortedKeys[i]) \o <<"=">>
                         \o EncodeURIComponent(values[i])]
  IN  IF \E i \in 1..Len(sortedKeys) :
           ~UriEncodable(sortedKeys[i]) \/ ~UriEncodable(values[i])
      THEN [threw |-> TRUE, s |-> <<>>]
      ELSE [threw |-> FALSE, s |-> JoinWith(parts, <<"&">>)]

\* the loop over Object.entries(params)
RECURSIVE FilterInto(_, _, _)
FilterInto(filteredParams, entries, finalExcludeKeys) ==
  IF entries = <<>> THEN filteredParams
  ELSE FilterInto(
         IF Head(entries).k \notin finalExcludeKeys /\ _isValidValue(Head(entries).v)
         THEN SetProperty(filteredParams, Head(entries).k, Head(entries).v)
         ELSE filteredParams,
         Tail(entries), finalExcludeKeys)

\* generateSignature adding the caller's exclude set to the default one.
generateSignatureAddingToDefault(secret, params, timestamp, excludeKeys) ==
  LET finalExcludeKeys == IF excludeKeys = None THEN DefaultExcludeKeys
                          ELSE DefaultExcludeKeys \cup excludeKeys[1]
      kept             == FilterInto(<<>>, params, finalExcludeKeys)
      filteredParams   == IF timestamp # None
                          THEN SetProperty(kept, KeyTimestamp, Num(timestamp[1]))
                          ELSE kept
      signString       == _buildSignString(filteredParams)
  IN  IF signString.threw
      THEN [threw |-> TRUE, sig |-> NoSignature, filtered |-> filteredParams,
            signString |-> <<>>, params |-> params, excludeKeys |-> excludeKeys]
      ELSE [threw |-> FALSE, sig |-> Hmac(secret, signString.s),
            filtered |-> filteredParams, signString |-> signString.s,
            params |-> params, excludeKeys |-> excludeKeys]

\* generateSignature adding the timestamp argument only when the kept entries
\* have no timestamp yet.
generateSignatureKeepingField(secret, params, timestamp, excludeKeys) ==
  LET finalExcludeKeys == IF excludeKeys = None THEN DefaultExcludeKeys ELSE excludeKeys[1]
      kept             == FilterInto(<<>>, params, finalExcludeKeys)
      filteredParams   == IF timestamp # None /\ ~HasProperty(kept, KeyTimestamp)
                          THEN SetProperty(kept, KeyTimestamp, Num(timestamp[1]))
                          ELSE kept
      signString       == _buildSignString(filteredParams)
  IN  IF signString.threw
      THEN [threw |-> TRUE, sig |-> NoSignature, filtered |-> filteredParams,
            signString |-> <<>>, params |-> params, excludeKeys |-> excludeKeys]
      ELSE [threw |-> FALSE, sig |-> Hmac(secret, signString.s),
            filtered |-> filteredParams, signString |-> signString.s,
            params |-> params, excludeKeys |-> excludeKeys]

\* generateSignature filtering the caller's object in place instead of
\* copying the kept entries into a new one.
generateSignatureInPlace(secret, params, timestamp, excludeKeys) ==
  LET finalExcludeKeys == IF excludeKeys = None THEN DefaultExcludeKeys ELSE excludeKeys[1]
      kept             == FilterInto(<<>>, params, finalExcludeKeys)
      filteredParams   == IF timestamp # None
                          THEN SetProperty(kept, KeyTimestamp, Num(timestamp[1]))
                          ELSE kept
      signString       == _buildSignString(filteredParams)
  IN  IF signString.threw
      THEN [threw |-> TRUE, sig |-> NoSignature, filtered |-> filteredParams,
            signString |-> <<>>, params |-> filteredParams, excludeKeys |-> excludeKeys]
      ELSE [threw |-> FALSE, sig |-> Hmac(secret, signString.s),
            filtered |-> filteredParams, signString |-> signString.s,
            params |-> filteredParams, excludeKeys |-> excludeKeys]

\* generateSignature(params, timestamp = null, excludeKeys = null) on a
\* validator holding `secret`: [threw, sig, filtered, signString, params,
\* excludeKeys], the last two being the caller's map and set as the call
\* leaves them.
generateSignature(secret, params, timestamp, excludeKeys) ==
  LET finalExcludeKeys == IF excludeKeys = None THEN DefaultExcludeKeys ELSE excludeKeys[1]
      kept             == FilterInto(<<>>, params, finalExcludeKeys)
      filteredParams   == IF timestamp # None
                          THEN SetProperty(kept, KeyTimestamp, Num(timestamp[1]))
                          ELSE kept
      signString       == _buildSignString(filteredParams)
  IN  IF signString.threw
      THEN [threw |-> TRUE, sig |-> NoSignature, filtered |-> filteredParams,
            signString |-> <<>>, params |-> params, excludeKeys |-> excludeKeys]
      ELSE [threw |-> FALSE, sig |-> Hmac(secret, signString.s),
            filtered |-> filteredParams, signString |-> signString.s,
            params |-> params, excludeKeys |-> excludeKeys]

\* _checkTimestamp(timestamp, tolerance) at clock `now` (seconds).
_checkTimestamp(timestamp, tolerance, now) ==
  LET parsed == ParseInt(ToStringJS(timestamp))
      isNaN  == timestamp.t # "number" /\ parsed.nan
      ts     == IF timestamp.t = "number" THEN timestamp.c ELSE 100 * parsed.n
  IN  IF isNaN THEN FALSE
      ELSE Abs(100 * now - ts) <= 100 * tolerance

\* crypto.timingSafeEqual(Buffer.from(a), Buffer.from(b)) inside the try of
\* validate: [threw, equal].
timingSafeEqual(a, b) ==
  IF b.kind = "undefined" THEN [threw |-> TRUE, equal |-> FALSE]
  ELSE IF ByteLength(a) # ByteLength(b) THEN [threw |-> TRUE, equal |-> FALSE]
  ELSE [threw |-> FALSE, equal |-> a = b]

\* Lines 106-118 of validate, once the expected signature is computed (or
\* generateSignature threw): the comparison inside try/catch.  `window` is
\* the steps taken before.
compareWithExpected(expected, signature, window) ==
  IF expected.threw
  THEN [threw |-> TRUE, ret |-> FALSE, windowRejected |-> FALSE, hmacs |-> 0,
        params |-> expected.params, steps |-> window \o <<"_buildSignString">>]
  ELSE [threw |-> FALSE,
        ret |-> LET compared == timingSafeEqual(expected.sig, signature)
                IN  ~compared.threw /\ compared.equal,
        windowRejected |-> FALSE, hmacs |-> 1,
        params |-> expected.params,
        steps |-> window \o <<"_buildSignString", "createHmac", "timingSafeEqual">>]

\* validate with a missing tolerance taken as 0 instead of 'no window test'.
validateDefaultTolerance(secret, params, signature, timestampTolerance, now) ==
  LET timestamp == GetProperty(params, KeyTimestamp)
      tolerance == IF timestampTolerance = None THEN 0 ELSE timestampTolerance[1]
  IN  IF Truthy(timestamp)
      THEN IF ~_checkTimestamp(timestamp, tolerance, now)
           THEN [threw |-> FALSE, ret |-> FALSE, windowRejected |-> TRUE, hmacs |-> 0,
                 params |-> params, steps |-> <<"_checkTimestamp">>]
           ELSE compareWithExpected(generateSignature(secret, params, None, None),
                                    signature, <<"_checkTimestamp">>)
      ELSE compareWithExpected(generateSignature(secret, params, None, None),
                               signature, <<>>)

\* validate with the window test inverted: it rejects unless a tolerance is
\* given and the timestamp passes.
validateRequiringWindow(secret, params, signature, timestampTolerance, now) ==
  LET timestamp == GetProperty(params, KeyTimestamp)
  IN  IF timestampTolerance = None
         \/ ~Truthy(timestamp)
         \/ ~_checkTimestamp(timestamp, timestampTolerance[1], now)
      THEN [threw |-> FALSE, ret |-> FALSE, windowRejected |-> TRUE, hmacs |-> 0,
            params |-> params, steps |-> <<"_checkTimestamp">>]
      ELSE compareWithExpected(generateSignature(secret, params, None, None),
                               signature, <<"_checkTimestamp">>)

\* validate(params, signature, timestampTolerance = null) at clock `now`:
\* [threw, ret, windowRejected, hmacs, params, steps] (hmacs counts the HMAC
\* computations, params is the caller's map as the call leaves it, steps
\* lists what the call did, in order).
validate(secret, params, signature, timestampTolerance, now) ==
  LET timestamp == GetProperty(params, KeyTimestamp)
  IN  IF timestampTolerance # None /\ Truthy(timestamp)
      THEN IF ~_checkTimestamp(timestamp, timestampTolerance[1], now)
           THEN [threw |-> FALSE, ret |-> FALSE, windowRejected |-> TRUE, hmacs |-> 0,
                 params |-> params, steps |-> <<"_checkTimestamp">>]
           ELSE compareWithExpected(generateSignature(secret, params, None, None),
                                    signature, <<"_checkTimestamp">>)
      ELSE compareWithExpected(generateSignature(secret, params, None, None),
                               signature, <<>>)

\* quickSign(params, secret) / quickValidate(params, signature, secret): a
\* fresh validator is constructed and the method called on it.
WhiteSpace == {" ", "\t", "\n", "\r", "\f", "U+00A0"}

\* The constructor test with the trim forgotten: only '' is refused.
SecretIsEmpty(s) == s = <<>>

\* !secret || secret.trim() === ''
SecretIsBlank(s) == s = <<>> \/ \A i \in 1..Len(s) : s[i] \in WhiteSpace

quickSign(params, s) ==
  IF SecretIsBlank(s)
  THEN [threw |-> TRUE, sig |-> NoSignature, filtered |-> <<>>, signString |-> <<>>,
        params |-> params, excludeKeys |-> None]
  ELSE generateSignature(s, params, None, None)

quickValidate(params, signature, s, now) ==
  IF SecretIsBlank(s)
  THEN [threw |-> TRUE, ret |-> FALSE, windowRejected |-> FALSE, hmacs |-> 0,
        params |-> params, steps |-> <<>>]
  ELSE validate(s, params, signature, None, now)

\* ------------------------------------------------------------------------
\* Inputs
\* ------------------------------------------------------------------------

KeyAmount   == <<"a", "m", "o", "u", "n", "t">>
KeyAppId    == <<"a", "p", "p", "_", "i", "d">>
KeyEmail    == <<"e", "m", "a", "i", "l">>
KeyNote     == <<"n", "o", "t", "e">>
KeyExtra    == <<"e", "x", "t", "r", "a">>
KeyUserId   == <<"u", "s", "e", "r", "_", "i", "d">>
KeyAction   == <<"a", "c", "t", "i", "o", "n">>

\* Secrets a validator can be constructed with (non-blank).
Secrets == {<<"c", "k", "-", "f", "9">>, <<"k", " ", "2">>}

\* Clock readings, in seconds: Math.floor(Date.now() / 1000).
NowStart == 5
MaxNow   == 6

Clock == NowStart..MaxNow

\* Values a field may carry.  Numbers are in hundredths.
NestedAB == ObjectFrom(<<[k |-> <<"a">>, v |-> Num(200)], [k |-> <<"b">>, v |-> Num(100)]>>)
NestedBA == ObjectFrom(<<[k |-> <<"b">>, v |-> Num(100)], [k |-> <<"a">>, v |-> Num(200)]>>)
NestedIndexKeys ==
  ObjectFrom(<<[k |-> <<"9">>, v |-> Str(<<"x", " ", "y">>)], [k |-> <<"1", "0">>, v |-> Bool(TRUE)]>>)

FieldValues ==
  { Null, Undefined,
    Str(<<>>), Str(<<"1">>), Str(<<"a", "&", "b">>), Str(<<LoneSurrogate>>),
    Num(0), Num(100), Num(100 * MaxNow),
    Bool(FALSE), Bool(TRUE),
    Arr(<<>>), Arr(<<Num(100 * NowStart)>>),
    Obj(<<>>), NestedAB, NestedBA }

\* Field names an alteration of the message may set.
FieldKeys ==
  { KeyAmount, KeyNote, KeySign, KeySignature, KeyTimestamp, ProtoKey }

\* The parameter maps a sender starts from: the literals of the examples of
\* signature-validator.ts and the emptiness example.
ParamsEmpty == <<>>

ParamsEmptiness ==
  DefineAll(<<>>, << [k |-> KeyAppId,  v |-> Str(<<"A", "1">>)],
                     [k |-> KeyAmount, v |-> Num(3999)],
                     [k |-> KeyEmail,  v |-> Str(<<>>)],
                     [k |-> KeyNote,   v |-> Null],
                     [k |-> KeyExtra,  v |-> Obj(<<>>)] >>)

ParamsBasic ==
  DefineAll(<<>>, << [k |-> KeyUserId, v |-> Num(1234500)],
                     [k |-> KeyAction, v |-> Str(<<"t", "r", "a", "n", "s", "f", "e", "r">>)],
                     [k |-> KeyAmount, v |-> Num(10050)] >>)

ParamsTimestamp ==
  DefineAll(<<>>, << [k |-> KeyAction,    v |-> Str(<<"l", "o", "g", "i", "n">>)],
                     [k |-> KeyTimestamp, v |-> Num(100 * NowStart)] >>)

ParamsNested ==
  DefineAll(<<>>, << [k |-> KeyAmount, v |-> Num(100)],
                     [k |-> KeyExtra,  v |-> NestedIndexKeys],
                     [k |-> KeyNote,   v |-> NestedBA] >>)

InitialParams ==
  { ParamsEmpty, ParamsEmptiness, ParamsBasic, ParamsTimestamp, ParamsNested }

\* Every way of writing the same value with the members of its maps, at
\* every depth, inserted in another order.
RECURSIVE Reorderings(_)
RECURSIVE ReorderedProps(_)
ReorderedProps(props) ==
  LET n == Len(props)
      choices == {f \in [1..n -> UNION {Reorderings(props[i].v) : i \in 1..n}] :
                    \A i \in 1..n : f[i] \in Reorderings(props[i].v)}
  IN  { DefineAll(<<>>, [i \in 1..n |-> [k |-> props[p[i]].k, v |-> f[p[i]]]]) :
          p \in Permutations(1..n), f \in choices }

Reorderings(v) ==
  CASE v.t = "object" -> { Obj(q) : q \in ReorderedProps(v.props) }
    [] v.t = "array"  ->
         LET n == Len(v.items)
         IN  { Arr(f) : f \in {g \in [1..n -> UNION {Reorderings(v.items[i]) : i \in 1..n}] :
                                 \A i \in 1..n : g[i] \in Reorderings(v.items[i])} }
    [] OTHER          -> {v}

\* delete obj[k]
DeleteProperty(props, k) == SelectSeq(props, LAMBDA p : p.k # k)

\* Signatures a caller may present to validate.
SuppliedSignatures(s, signedCall) ==
  (IF signedCall # None /\ ~signedCall[1].result.threw
   THEN {signedCall[1].result.sig} ELSE {})
  \cup { Text(<<>>), Hmac(s, <<"f", "o", "r", "g", "e", "d">>), NotAString }

Tolerances == { Some(0), Some(1) }

\* ------------------------------------------------------------------------
\* The order-creation route: src/app/api/payment/create/route.ts
\* ------------------------------------------------------------------------

KeySecret    == <<"s", "e", "c", "r", "e", "t">>
KeyUserName  == <<"u", "s", "e", "r", "_", "n", "a", "m", "e">>
KeyBackUrl   == <<"b", "a", "c", "k", "_", "u", "r", "l">>
KeyFailUrl   == <<"f", "a", "i", "l", "_", "u", "r", "l">>
KeySucUrl    == <<"s", "u", "c", "_", "u", "r", "l">>
KeyError     == <<"e", "r", "r", "o", "r">>
KeyMessage   == <<"m", "e", "s", "s", "a", "g", "e">>
KeyDetails   == <<"d", "e", "t", "a", "i", "l", "s">>
KeySuccess   == <<"s", "u", "c", "c", "e", "s", "s">>
KeyApiUrl    == <<"a", "p", "i", "U", "r", "l">>
KeyAppIdCfg  == <<"a", "p", "p", "I", "d">>
KeyOrderId   == <<"o", "r", "d", "e", "r", "_", "i", "d">>
KeyUrl       == <<"u", "r", "l">>

\* PAY302_CONFIG and IS_DEBUG, read from the environment ('' when unset).
Configs ==
  [ appId   : {<<"a", "p", "p", "-", "1">>},
    secret  : {<<>>, <<"c", "k", "-", "f", "9">>, <<"k", " ", "2">>},
    apiUrl  : {<<"h", "t", "t", "p", "s", ":", "/", "/", "a", "p", "i">>},
    isDebug : BOOLEAN ]

\* Request bodies: a JSON object with any of the fields present.
BodyFields ==
  [ user_name : {Undefined, Str(<<"A", "l">>), Str(<<"A", LoneSurrogate>>)},
    email     : {Undefined, Str(<<"a", "@", "b", ".", "c">>), Str(<<"a", " ", "b">>)},
    amount    : {Undefined, Num(0), Num(-100), Num(3999), Str(<<"a", "b", "c">>)},
    extra     : {Undefined, ObjectFrom(<<[k |-> KeyOrderId, v |-> Str(<<"7">>)]>>)} ]

BodyOf(f) ==
  SelectSeq(<< [k |-> KeyUserName, v |-> f.user_name],
               [k |-> KeyEmail,    v |-> f.email],
               [k |-> KeyAmount,   v |-> f.amount],
               [k |-> KeyExtra,    v |-> f.extra] >>,
            LAMBDA p : p.v.t # "undefined")

Bodies == {BodyOf(f) : f \in BodyFields}

\* What the gateway does with the request: the fetch rejects, or it answers
\* with a status and a body.
GatewayOutcomes ==
  { [kind |-> "rejects",  status |-> 0,   text |-> <<>>, result |-> <<>>],
    [kind |-> "notOk",    status |-> 502, text |-> <<"B", "a", "d", " ", "G", "a", "t", "e", "w", "a", "y">>, result |-> <<>>],
    [kind |-> "ok",       status |-> 200, text |-> <<>>,
     result |-> <<[k |-> KeyUrl, v |-> Str(<<"h", "t", "t", "p", "s", ":", "/", "/", "p", "a", "y">>)]>>],
    [kind |-> "ok",       status |-> 200, text |-> <<>>,
     result |-> <<[k |-> KeySuccess,   v |-> Bool(FALSE)],
                  [k |-> KeySignature, v |-> Str(<<"g", "w">>)]>>],
    [kind |-> "okNoJson", status |-> 200, text |-> <<"<", "h", "t", "m", "l", ">">>, result |-> <<>>] }

\* /^[^\s<<"]", "+">>[^\s<<"]", "+", "\", ".", "[", "^", "\", "s">>]+$/.test(s)
NoBlankOrAt(s) == s # <<>> /\ \A i \in 1..Len(s) : s[i] \notin {" ", "@"}

EmailMatches(s) ==
  \E i \in 1..Len(s), j \in 1..Len(s) :
    /\ i < j
    /\ s[i] = "@"
    /\ s[j] = "."
    /\ NoBlankOrAt(SubSeq(s, 1, i - 1))
    /\ NoBlankOrAt(SubSeq(s, i + 1, j - 1))
    /\ NoBlankOrAt(SubSeq(s, j + 1, Len(s)))

\* body.field || ''
OrEmpty(v) == IF Truthy(v) THEN v ELSE Str(<<>>)

\* The paymentParams literal of POST.
PaymentParams(cfg, body) ==
  DefineAll(<<>>,
    << [k |-> KeyAppId,    v |-> Str(cfg.appId)],
       [k |-> KeySecret,   v |-> Str(cfg.secret)],
       [k |-> KeyUserName, v |-> GetProperty(body, KeyUserName)],
       [k |-> KeyEmail,    v |-> GetProperty(body, KeyEmail)],
       [k |-> KeyAmount,   v |-> GetProperty(body, KeyAmount)],
       [k |-> KeyBackUrl,  v |-> OrEmpty(GetProperty(body, KeyBackUrl))],
       [k |-> KeyFailUrl,  v |-> OrEmpty(GetProperty(body, KeyFailUrl))],
       [k |-> KeySucUrl,   v |-> OrEmpty(GetProperty(body, KeySucUrl))],
       [k |-> KeyExtra,    v |-> IF Truthy(GetProperty(body, KeyExtra))
                                 THEN GetProperty(body, KeyExtra) ELSE Obj(<<>>)] >>)

\* What NextResponse.json sends: members whose value is undefined are left out.
JsonBody(props) == SelectSeq(props, LAMBDA p : p.v.t # "undefined")

ErrorResponse(status, text) ==
  [status |-> status, body |-> <<[k |-> KeyError, v |-> Str(text)]>>]

InternalError(message) ==
  [status |-> 500,
   body |-> << [k |-> KeyError,   v |-> Str(<<"I", "n", "t", "e", "r", "n", "a", "l", " ", "s", "e", "r", "v", "e", "r", " ", "e", "r", "r", "o", "r">>)],
               [k |-> KeyMessage, v |-> Str(message)] >>]

MsgSecretEmpty ==
  <<"S", "e", "c", "r", "e", "t", " ", "U+4E0D", "U+80FD", "U+4E3A", "U+7A7A", "!">>

\* A signature as it appears in a JSON body or a log line.
SigValue(sig) == [t |-> "signature", sig |-> sig]

\* The signature echoed whatever the debug flag says.
EchoedSignatureAlways(cfg, sig) == SigValue(sig)

\* signature: IS_DEBUG ? signature : undefined
EchoedSignature(cfg, sig) == IF cfg.isDebug THEN SigValue(sig) ELSE Undefined

\* Number(s) for a string: blanks trimmed, '' is 0, an optional sign and
\* decimal digits give their value (in hundredths), any other text is NaN.
\* (Fractions, exponents and 0x forms do not occur in the bodies modelled.)
RECURSIVE TrimEnd(_)
TrimEnd(s) ==
  IF s # <<>> /\ s[Len(s)] \in WhiteSpace THEN TrimEnd(SubSeq(s, 1, Len(s) - 1)) ELSE s

RECURSIVE TrimStart(_)
TrimStart(s) == IF s # <<>> /\ Head(s) \in WhiteSpace THEN TrimStart(Tail(s)) ELSE s

StringToNumber(s) ==
  LET t      == TrimStart(TrimEnd(s))
      neg    == t # <<>> /\ Head(t) = "-"
      digits == IF t # <<>> /\ Head(t) \in {"-", "+"} THEN Tail(t) ELSE t
  IN  IF t = <<>> THEN [nan |-> FALSE, c |-> 0]
      ELSE IF digits = <<>> \/ DigitPrefix(digits) # digits THEN [nan |-> TRUE, c |-> 0]
      ELSE [nan |-> FALSE,
            c |-> IF neg THEN -(100 * StrToNat(digits)) ELSE 100 * StrToNat(digits)]

\* ToNumber(value), as the relational operators apply it to an operand.
ToNumber(v) ==
  CASE v.t = "number"    -> [nan |-> FALSE, c |-> v.c]
    [] v.t = "boolean"   -> [nan |-> FALSE, c |-> IF v.b THEN 100 ELSE 0]
    [] v.t = "null"      -> [nan |-> FALSE, c |-> 0]
    [] v.t = "undefined" -> [nan |-> TRUE, c |-> 0]
    [] OTHER             -> StringToNumber(ToStringJS(v))

\* value <= 0: false when either side converts to NaN.
LessOrEqualZero(v) == ~ToNumber(v).nan /\ ToNumber(v).c <= 0

\* POST /api/payment/create for one request: [response, signCalls, logged,
\* gatewayCalls].  body = None stands for a request whose JSON does not parse.
PostCreate(cfg, request, gateway) ==
  LET body          == request[1]
      paymentParams == PaymentParams(cfg, body)
      generated     == generateSignature(cfg.secret, paymentParams, None, None)
      requestData   == DefineProperty(paymentParams, KeySignature, SigValue(generated.sig))
      quiet(resp)   == [response |-> resp, signCalls |-> <<>>, logged |-> <<>>,
                        gatewayCalls |-> <<>>, validateCalls |-> <<>>,
                        statusHandled |-> ""]
      failed(resp, calls, logs, sent_) ==
                       [response |-> resp, signCalls |-> calls, logged |-> logs,
                        gatewayCalls |-> sent_, validateCalls |-> <<>>,
                        statusHandled |-> ""]
      signCall      == [params |-> paymentParams, result |-> generated]
  IN  IF request = None
      THEN failed(InternalError(<<"U", "n", "e", "x", "p", "e", "c", "t", "e", "d", " ", "t", "o", "k", "e", "n">>), <<>>, <<Str(<<"U", "n", "e", "x", "p", "e", "c", "t", "e", "d", " ", "t", "o", "k", "e", "n">>)>>, <<>>)
      ELSE IF \/ ~Truthy(GetProperty(body, KeyUserName))
              \/ ~Truthy(GetProperty(body, KeyEmail))
              \/ ~Truthy(GetProperty(body, KeyAmount))
      THEN quiet(ErrorResponse(400, <<"M", "i", "s", "s", "i", "n", "g", " ", "r", "e", "q", "u", "i", "r", "e", "d", " ", "p", "a", "r", "a", "m", "e", "t", "e", "r", "s", ":", " ", "u", "s", "e", "r", "_", "n", "a", "m", "e", ",", " ", "e", "m", "a", "i", "l", ",", " ", "a", "m", "o", "u", "n", "t">>))
      ELSE IF LessOrEqualZero(GetProperty(body, KeyAmount))
      THEN quiet(ErrorResponse(400, <<"A", "m", "o", "u", "n", "t", " ", "m", "u", "s", "t", " ", "b", "e", " ", "g", "r", "e", "a", "t", "e", "r", " ", "t", "h", "a", "n", " ", "0">>))
      ELSE IF ~EmailMatches(GetProperty(body, KeyEmail).s)
      THEN quiet(ErrorResponse(400, <<"I", "n", "v", "a", "l", "i", "d", " ", "e", "m", "a", "i", "l", " ", "f", "o", "r", "m", "a", "t">>))
      ELSE IF SecretIsBlank(cfg.secret)
      THEN failed(InternalError(MsgSecretEmpty), <<>>, <<Str(MsgSecretEmpty)>>, <<>>)
      ELSE IF generated.threw
      THEN failed(InternalError(<<"U", "R", "I", " ", "m", "a", "l", "f", "o", "r", "m", "e", "d">>), <<signCall>>, <<Str(<<"U", "R", "I", " ", "m", "a", "l", "f", "o", "r", "m", "e", "d">>)>>, <<>>)
      ELSE IF gateway.kind = "rejects"
      THEN failed(InternalError(<<"f", "e", "t", "c", "h", " ", "f", "a", "i", "l", "e", "d">>), <<signCall>>,
                  <<Obj(requestData), Str(<<"f", "e", "t", "c", "h", " ", "f", "a", "i", "l", "e", "d">>)>>, <<requestData>>)
      ELSE IF gateway.kind = "notOk"
      THEN failed([status |-> gateway.status,
                   body |-> << [k |-> KeyError,   v |-> Str(<<"P", "a", "y", "m", "e", "n", "t", " ", "A", "P", "I", " ", "c", "a", "l", "l", " ", "f", "a", "i", "l", "e", "d">>)],
                               [k |-> KeyDetails, v |-> Str(gateway.text)] >>],
                  <<signCall>>, <<Obj(requestData), Str(gateway.text)>>, <<requestData>>)
      ELSE IF gateway.kind = "okNoJson"
      THEN failed(InternalError(<<"U", "n", "e", "x", "p", "e", "c", "t", "e", "d", " ", "t", "o", "k", "e", "n">>), <<signCall>>,
                  <<Obj(requestData), Str(<<"U", "n", "e", "x", "p", "e", "c", "t", "e", "d", " ", "t", "o", "k", "e", "n">>)>>, <<requestData>>)
      ELSE failed([status |-> 200,
                   body |-> JsonBody(
                     DefineProperty(
                       DefineAll(<<[k |-> KeySuccess, v |-> Bool(TRUE)]>>, gateway.result),
                       KeySignature, EchoedSignature(cfg, generated.sig)))],
                  <<signCall>>, <<Obj(requestData), Obj(gateway.result)>>, <<requestData>>)

\* GET /api/payment/create
GetCreate(cfg) ==
  [response |-> [status |-> 200,
                 body |-> << [k |-> KeyApiUrl,   v |-> Str(cfg.apiUrl)],
                             [k |-> KeyAppIdCfg, v |-> Str(cfg.appId)],
                             [k |-> KeyMessage,
                              v |-> Str(<<"U", "s", "e", " ", "P", "O", "S", "T", " ", "m", "e", "t", "h", "o", "d", " ", "t", "o", " ", "c", "r", "e", "a", "t", "e", " ", "p", "a", "y", "m", "e", "n", "t", " ", "o", "r", "d", "e", "r">>)] >>],
   signCalls |-> <<>>, logged |-> <<>>, gatewayCalls |-> <<>>,
   validateCalls |-> <<>>, statusHandled |-> ""]

\* ------------------------------------------------------------------------
\* The webhook route: POST /api/payment/checkout
\* ------------------------------------------------------------------------

KeyPaymentOrder  == <<"p", "a", "y", "m", "e", "n", "t", "_", "o", "r", "d", "e", "r">>
KeyPaymentStatus == <<"p", "a", "y", "m", "e", "n", "t", "_", "s", "t", "a", "t", "u", "s">>
KeyData          == <<"d", "a", "t", "a">>
KeyDebug         == <<"d", "e", "b", "u", "g">>
KeyStatusText    == <<"s", "t", "a", "t", "u", "s", "_", "t", "e", "x", "t">>
KeyIsComplete    == <<"i", "s", "_", "p", "a", "y", "m", "e", "n", "t", "_", "c", "o", "m", "p", "l", "e", "t", "e">>
KeySignatureValid == <<"s", "i", "g", "n", "a", "t", "u", "r", "e", "_", "v", "a", "l", "i", "d">>
KeyReceivedData  == <<"r", "e", "c", "e", "i", "v", "e", "d", "_", "d", "a", "t", "a">>

\* The fields of a callback body, before the sender signs it.
WebhookFields ==
  [ app_id         : {Undefined, Str(<<"a", "p", "p", "-", "1">>), Str(<<"a", "p", "p", "-", "2">>)},
    payment_order  : {Undefined, Str(<<"P", "1">>), Str(<<LoneSurrogate>>)},
    payment_status : {Undefined, Num(100), Num(0), Num(-100), Num(-200), Num(200),
                      Str(<<"1">>), Bool(TRUE)},
    extra          : {Undefined, ObjectFrom(<<[k |-> KeyOrderId, v |-> Str(<<"7">>)]>>),
                      Str(<<"x">>)} ]

UnsignedBody(f) ==
  SelectSeq(<< [k |-> KeyExtra,         v |-> f.extra],
               [k |-> KeyPaymentOrder,  v |-> f.payment_order],
               [k |-> KeyPaymentStatus, v |-> f.payment_status],
               [k |-> KeyAppId,         v |-> f.app_id] >>,
            LAMBDA p : p.v.t # "undefined")

\* The signature field a sender may attach: none, the signature under a
\* secret it holds, or something else.
AttachedSignatures(body) ==
  {Undefined, Str(<<>>), Str(<<"z", "z">>), Num(100)}
  \cup {SigValue(generateSignature(s, body, None, None).sig) :
          s \in {x \in Secrets : ~generateSignature(x, body, None, None).threw}}

WebhookBodies ==
  UNION { { IF sig.t = "undefined" THEN UnsignedBody(f)
            ELSE DefineProperty(UnsignedBody(f), KeySignature, sig) :
              sig \in AttachedSignatures(UnsignedBody(f)) } : f \in WebhookFields }

\* body.signature as the `signature` argument of validate
SignatureArgument(v) ==
  CASE v.t = "signature" -> v.sig
    [] v.t = "string"    -> Text(v.s)
    [] OTHER             -> NotAString

\* extra?.order_id
OptionalMember(v, k) ==
  IF v.t = "object" THEN GetProperty(v.props, k) ELSE Undefined

\* getPaymentStatusText comparing loosely (==): '1' and true count as 1.
getPaymentStatusTextLoose(status) ==
  CASE status \in {Num(100), Str(<<"1">>), Bool(TRUE)} -> <<"C", "O", "M", "P", "L", "E", "T", "E", "D">>
    [] status = Num(0)    -> <<"U", "N", "P", "A", "I", "D">>
    [] status = Num(-100) -> <<"F", "A", "I", "L", "E", "D">>
    [] status = Num(-200) -> <<"T", "I", "M", "E", "O", "U", "T">>
    [] OTHER              -> <<"U", "N", "K", "N", "O", "W", "N">>

\* getPaymentStatusText(status)
getPaymentStatusText(status) ==
  CASE status = Num(100)  -> <<"C", "O", "M", "P", "L", "E", "T", "E", "D">>
    [] status = Num(0)    -> <<"U", "N", "P", "A", "I", "D">>
    [] status = Num(-100) -> <<"F", "A", "I", "L", "E", "D">>
    [] status = Num(-200) -> <<"T", "I", "M", "E", "O", "U", "T">>
    [] OTHER              -> <<"U", "N", "K", "N", "O", "W", "N">>

\* The branch of the status handling (step 4 of POST) taken for the status.
StatusBranch(status) ==
  CASE status = Num(100)  -> "Payment SUCCESS"
    [] status = Num(0)    -> "Payment UNPAID"
    [] status = Num(-100) -> "Payment FAILED"
    [] status = Num(-200) -> "Payment TIMEOUT"
    [] OTHER              -> "Unknown Status"

WebhookFailure(status, text) ==
  [status |-> status,
   body |-> << [k |-> KeySuccess, v |-> Bool(FALSE)],
               [k |-> KeyError,   v |-> Str(text)] >>]

WebhookInternalError(message) ==
  [status |-> 500,
   body |-> << [k |-> KeySuccess, v |-> Bool(FALSE)],
               [k |-> KeyError,   v |-> Str(<<"I", "n", "t", "e", "r", "n", "a", "l", " ", "s", "e", "r", "v", "e", "r", " ", "e", "r", "r", "o", "r">>)],
               [k |-> KeyMessage, v |-> Str(message)] >>]

\* POST /api/payment/checkout for one request: [response, validateCalls,
\* logged, statusHandled, signCalls] (signCalls: the generateSignature call
\* inside each validate).  request = None stands for a request whose JSON
\* does not parse; statusHandled names the branch of the status handling that
\* ran, "" when none did.
PostCheckout(cfg, request) ==
  LET body      == request[1]
      signature == GetProperty(body, KeySignature)
      verdict   == validate(cfg.secret, body, SignatureArgument(signature), None, NowStart)
      call      == [params |-> body, signature |-> SignatureArgument(signature),
                    result |-> verdict]
      status    == GetProperty(body, KeyPaymentStatus)
      extra     == GetProperty(body, KeyExtra)
      orderId   == IF Truthy(OptionalMember(extra, KeyOrderId))
                   THEN OptionalMember(extra, KeyOrderId) ELSE Str(<<"U", "N", "K", "N", "O", "W", "N">>)
      data      == JsonBody(
                     << [k |-> KeyOrderId,       v |-> orderId],
                        [k |-> KeyPaymentOrder,  v |-> GetProperty(body, KeyPaymentOrder)],
                        [k |-> KeyPaymentStatus, v |-> status],
                        [k |-> KeyIsComplete,    v |-> Bool(status = Num(100))],
                        [k |-> KeyStatusText,    v |-> Str(getPaymentStatusText(status))] >>)
      debug     == IF cfg.isDebug
                   THEN << [k |-> KeyDebug,
                            v |-> Obj(<< [k |-> KeySignatureValid, v |-> Bool(TRUE)],
                                         [k |-> KeyReceivedData,   v |-> Obj(body)] >>)] >>
                   ELSE <<>>
      out(resp, calls, logs, branch) ==
                   [response |-> resp, validateCalls |-> calls, logged |-> logs,
                    statusHandled |-> branch, gatewayCalls |-> <<>>,
                    signCalls |-> [i \in 1..Len(calls) |->
                                     [params |-> calls[i].params,
                                      result |-> generateSignature(cfg.secret, calls[i].params,
                                                                   None, None)]]]
  IN  IF request = None
      THEN out(WebhookInternalError(<<"U", "n", "e", "x", "p", "e", "c", "t", "e", "d", " ", "t", "o", "k", "e", "n">>), <<>>, <<Str(<<"U", "n", "e", "x", "p", "e", "c", "t", "e", "d", " ", "t", "o", "k", "e", "n">>)>>, "")
      ELSE IF \/ ~Truthy(signature)
              \/ ~Truthy(GetProperty(body, KeyAppId))
              \/ ~Truthy(GetProperty(body, KeyPaymentOrder))
      THEN out(WebhookFailure(400, <<"M", "i", "s", "s", "i", "n", "g", " ", "r", "e", "q", "u", "i", "r", "e", "d", " ", "f", "i", "e", "l", "d", "s", ":", " ", "s", "i", "g", "n", "a", "t", "u", "r", "e", ",", " ", "a", "p", "p", "_", "i", "d", ",", " ", "p", "a", "y", "m", "e", "n", "t", "_", "o", "r", "d", "e", "r">>),
               <<>>, <<Obj(body), Str(<<"M", "i", "s", "s", "i", "n", "g", " ", "r", "e", "q", "u", "i", "r", "e", "d", " ", "f", "i", "e", "l", "d", "s">>)>>, "")
      ELSE IF GetProperty(body, KeyAppId) # Str(cfg.appId)
      THEN out(WebhookFailure(403, <<"I", "n", "v", "a", "l", "i", "d", " ", "a", "p", "p", "_", "i", "d">>), <<>>,
               <<Obj(body), Str(<<"I", "n", "v", "a", "l", "i", "d", " ", "a", "p", "p", "_", "i", "d">>)>>, "")
      ELSE IF SecretIsBlank(cfg.secret)
      THEN out(WebhookInternalError(MsgSecretEmpty), <<>>,
               <<Obj(body), Str(MsgSecretEmpty)>>, "")
      ELSE IF verdict.threw
      THEN out(WebhookInternalError(<<"U", "R", "I", " ", "m", "a", "l", "f", "o", "r", "m", "e", "d">>), <<call>>,
               <<Obj(body), Str(<<"U", "R", "I", " ", "m", "a", "l", "f", "o", "r", "m", "e", "d">>)>>, "")
      ELSE IF ~verdict.ret
      THEN out(WebhookFailure(401, <<"I", "n", "v", "a", "l", "i", "d", " ", "s", "i", "g", "n", "a", "t", "u", "r", "e", " ", "-", " ", "r", "e", "q", "u", "e", "s", "t", " ", "a", "u", "t", "h", "e", "n", "t", "i", "c", "a", "t", "i", "o", "n", " ", "f", "a", "i", "l", "e", "d">>),
               <<call>>,
               <<Obj(body), Str(<<"I", "n", "v", "a", "l", "i", "d", " ", "s", "i", "g", "n", "a", "t", "u", "r", "e", " ", "d", "e", "t", "e", "c", "t", "e", "d", "!">>), signature, Obj(body)>>, "")
      ELSE out([status |-> 200,
                body |-> << [k |-> KeySuccess, v |-> Bool(TRUE)],
                            [k |-> KeyMessage, v |-> Str(<<"W", "e", "b", "h", "o", "o", "k", " ", "p", "r", "o", "c", "e", "s", "s", "e", "d", " ", "s", "u", "c", "c", "e", "s", "s", "f", "u", "l", "l", "y">>)],
                            [k |-> KeyData,    v |-> Obj(data)] >> \o debug],
               <<call>>,
               <<Obj(body), Str(<<"S", "i", "g", "n", "a", "t", "u", "r", "e", " ", "V", "e", "r", "i", "f", "i", "e", "d">>), orderId,
                 Str(getPaymentStatusText(status))>>,
               StatusBranch(status))

\* GET /api/payment/checkout
GetCheckout ==
  [response |-> [status |-> 200,
                 body |-> << [k |-> KeyMessage,
                              v |-> Str(<<"P", "a", "y", "m", "e", "n", "t", " ", "w", "e", "b", "h", "o", "o", "k", " ", "e", "n", "d", "p", "o", "i", "n", "t", " ", "i", "s", " ", "a", "c", "t", "i", "v", "e">>)],
                             [k |-> KeyNote,
                              v |-> Str(<<"T", "h", "i", "s", " ", "e", "n", "d", "p", "o", "i", "n", "t", " ", "o", "n", "l", "y", " ", "a", "c", "c", "e", "p", "t", "s", " ", "P", "O", "S", "T", " ", "r", "e", "q", "u", "e", "s", "t", "s">>)] >>],
   validateCalls |-> <<>>, logged |-> <<>>, statusHandled |-> "",
   gatewayCalls |-> <<>>, signCalls |-> <<>>]

\* ------------------------------------------------------------------------
\* State
\* ------------------------------------------------------------------------

VARIABLES
  secret,     \* this.secret of the validator instance
  sent,       \* the parameter map the sender holds
  received,   \* the parameter map the verifying side holds
  signed,     \* the generateSignature call made on `sent`, if any
  lastCall,   \* the call the verifying side made on `received`, if any
  config,     \* PAY302_CONFIG and IS_DEBUG of the route module
  handled,    \* the request the route handled, with what it did, if any
  constructed, \* the constructor call that made the instance, if any
  repeat      \* a validate call made once more with the same arguments, if any

vars == <<secret, sent, received, signed, lastCall, config, handled, constructed, repeat>>

routeVars == <<config, handled>>

libraryVars == <<secret, sent, received, signed, lastCall, constructed, repeat>>

\* A validator instance exists: its constructor returned.
Usable == constructed # None /\ constructed[1].by = "new" /\ ~constructed[1].threw

NoResult ==
  [threw |-> FALSE, ret |-> FALSE, windowRejected |-> FALSE, hmacs |-> 0, steps |-> <<>>]

NoGenerated ==
  [threw |-> FALSE, sig |-> NoSignature, filtered |-> <<>>, signString |-> <<>>]

Init ==
  /\ secret \in Secrets
  /\ sent \in InitialParams
  /\ received = sent
  /\ signed = None
  /\ lastCall = None
  /\ config = [appId |-> <<>>, secret |-> <<>>, apiUrl |-> <<>>, isDebug |-> FALSE]
  /\ handled = None
  /\ constructed = Some([by |-> "new", arg |-> secret, threw |-> FALSE])
  /\ repeat = None

\* The sender signs its parameters: validator.generateSignature(params), or
\* quickSign(params, SECRET).
Sign ==
  /\ Usable
  /\ signed = None
  /\ \/ signed' = Some([params |-> sent,
                        result |-> generateSignature(secret, sent, None, None)])
     \/ signed' = Some([params |-> sent, result |-> quickSign(sent, secret)])
  /\ UNCHANGED <<secret, sent, received, lastCall>>
  /\ UNCHANGED <<routeVars, constructed, repeat>>

\* The signed message is altered once on its way: { ...params, k: v }.
SetField ==
  /\ Usable
  /\ repeat = None
  /\ signed # None
  /\ received = sent
  /\ \E k \in FieldKeys, v \in FieldValues :
    /\ received' = DefineProperty(sent, k, v)
    /\ received' # received
    /\ lastCall' = None
    /\ UNCHANGED <<secret, sent, signed>>
  /\ UNCHANGED <<routeVars, constructed, repeat>>

RemoveField ==
  /\ Usable
  /\ repeat = None
  /\ signed # None
  /\ received = sent
  /\ \E k \in {sent[i].k : i \in 1..Len(sent)} :
    /\ received' = DeleteProperty(sent, k)
    /\ lastCall' = None
    /\ UNCHANGED <<secret, sent, signed>>
  /\ UNCHANGED <<routeVars, constructed, repeat>>

\* The same members arrive written in another order.
Reorder ==
  /\ Usable
  /\ repeat = None
  /\ signed # None
  /\ received = sent
  /\ \E q \in ReorderedProps(sent) :
    /\ received' = q
    /\ received' # received
    /\ lastCall' = None
    /\ UNCHANGED <<secret, sent, signed>>
  /\ UNCHANGED <<routeVars, constructed, repeat>>

\* The verifying side recomputes the signature of what it received.
Resign ==
  /\ Usable
  /\ lastCall = None
  /\ lastCall' = Some([op |-> "generateSignature", params |-> received,
                       signature |-> NoSignature, tolerance |-> None, at |-> NowStart,
                       generated |-> generateSignature(secret, received, None, None),
                       result |-> NoResult])
  /\ UNCHANGED <<secret, sent, received, signed>>
  /\ UNCHANGED <<routeVars, constructed, repeat>>

\* validator.validate(params, signature) without a tolerance
Validate ==
  /\ Usable
  /\ lastCall = None
  /\ \E s \in SuppliedSignatures(secret, signed) :
    /\ lastCall' = Some([op |-> "validate", params |-> received,
                         signature |-> s, tolerance |-> None, at |-> NowStart,
                         generated |-> NoGenerated,
                         result |-> validate(secret, received, s, None, NowStart)])
    /\ UNCHANGED <<secret, sent, received, signed>>
  /\ UNCHANGED <<routeVars, constructed, repeat>>

\* validator.validate(params, signature, timestampTolerance), the clock
\* reading `now`
ValidateWindow ==
  /\ Usable
  /\ lastCall = None
  /\ \E s \in SuppliedSignatures(secret, signed), tol \in Tolerances, t \in Clock :
    /\ lastCall' = Some([op |-> "validate", params |-> received,
                         signature |-> s, tolerance |-> tol, at |-> t,
                         generated |-> NoGenerated,
                         result |-> validate(secret, received, s, tol, t)])
    /\ UNCHANGED <<secret, sent, received, signed>>
  /\ UNCHANGED <<routeVars, constructed, repeat>>

\* The flow of example302Payment and exampleTimestampValidation: the caller
\* signs the parameters it holds and has the same validator validate them
\* with that signature (nothing is validated when signing threw).
RoundTrip ==
  /\ Usable
  /\ lastCall = None
  /\ \E tol \in {None} \cup Tolerances, t \in Clock :
       LET generated == generateSignature(secret, received, None, None)
       IN  /\ tol = None => t = NowStart
           /\ lastCall' = Some([op |-> "roundTrip", params |-> received,
                                signature |-> generated.sig, tolerance |-> tol, at |-> t,
                                generated |-> generated,
                                result |-> IF generated.threw THEN NoResult
                                           ELSE validate(secret, received, generated.sig,
                                                         tol, t)])
  /\ UNCHANGED <<secret, sent, received, signed>>
  /\ UNCHANGED <<routeVars, constructed, repeat>>

\* The flow of exampleQuickFunctions: quickValidate(params, quickSign(params,
\* SECRET), SECRET).
QuickRoundTrip ==
  /\ Usable
  /\ lastCall = None
  /\ LET generated == quickSign(received, secret)
     IN  lastCall' = Some([op |-> "quickRoundTrip", params |-> received,
                          signature |-> generated.sig, tolerance |-> None, at |-> NowStart,
                          generated |-> generated,
                          result |-> IF generated.threw THEN NoResult
                                     ELSE quickValidate(received, generated.sig, secret,
                                                        NowStart)])
  /\ UNCHANGED <<secret, sent, received, signed>>
  /\ UNCHANGED <<routeVars, constructed, repeat>>

Next ==
  \/ Sign
  \/ SetField
  \/ RemoveField
  \/ Reorder
  \/ Resign
  \/ Validate
  \/ ValidateWindow
  \/ RoundTrip
  \/ QuickRoundTrip

Spec == Init /\ [][Next]_vars

\* Construction: the caller holds no instance yet and constructs one, or
\* calls a quick function that constructs its own.
SecretArgs ==
  Secrets \cup {<<>>, <<" ">>, <<" ", " ">>, <<"\t">>, <<" ", "\n">>, <<" ", "k">>}

LifeInit ==
  /\ secret = <<>>
  /\ sent \in {ParamsBasic, ParamsTimestamp}
  /\ received = sent
  /\ signed = None
  /\ lastCall = None
  /\ config = [appId |-> <<>>, secret |-> <<>>, apiUrl |-> <<>>, isDebug |-> FALSE]
  /\ handled = None
  /\ constructed = None
  /\ repeat = None

\* new SignatureValidator(arg)
Construct ==
  /\ constructed = None
  /\ \E arg \in SecretArgs :
       /\ constructed' = Some([by |-> "new", arg |-> arg, threw |-> SecretIsBlank(arg)])
       /\ secret' = IF SecretIsBlank(arg) THEN secret ELSE arg
  /\ UNCHANGED <<sent, received, signed, lastCall>>
  /\ UNCHANGED <<routeVars, repeat>>

\* quickValidate(params, quickSign(params, arg), arg): each call constructs
\* a validator of its own.
QuickConstruct ==
  /\ constructed = None
  /\ \E arg \in SecretArgs :
       LET generated == quickSign(received, arg)
       IN  /\ constructed' = Some([by |-> "quick", arg |-> arg,
                                   threw |-> SecretIsBlank(arg)])
           /\ lastCall' = Some([op |-> "quickRoundTrip", params |-> received,
                                signature |-> generated.sig, tolerance |-> None,
                                at |-> NowStart, generated |-> generated,
                                result |-> quickValidate(received, generated.sig, arg,
                                                         NowStart)])
  /\ UNCHANGED <<secret, sent, received, signed>>
  /\ UNCHANGED <<routeVars, repeat>>

\* Repetition: a validate call is made a second time with the arguments of
\* the first, at the same or a later clock reading.
RepeatInit ==
  /\ Init
  /\ sent \in {ParamsEmpty, ParamsBasic, ParamsTimestamp}

ValidateAgain ==
  /\ Usable
  /\ repeat = None
  /\ lastCall # None
  /\ lastCall[1].op = "validate"
  /\ \E t \in Clock :
       /\ t >= lastCall[1].at
       /\ repeat' = Some([first |-> lastCall[1], at |-> t,
                          result |-> validate(secret, lastCall[1].params,
                                              lastCall[1].signature,
                                              lastCall[1].tolerance, t)])
  /\ UNCHANGED <<secret, sent, received, signed, lastCall>>
  /\ UNCHANGED <<routeVars, constructed>>

RepeatNext ==
  \/ ValidateAgain
  \/ Next

RepeatSpec == RepeatInit /\ [][RepeatNext]_vars

LifeNext ==
  \/ Construct
  \/ QuickConstruct
  \/ Next

LifeSpec == LifeInit /\ [][LifeNext]_vars

\* The route module: one request is handled.
RouteInit ==
  /\ secret = <<>>
  /\ sent = <<>>
  /\ received = <<>>
  /\ signed = None
  /\ lastCall = None
  /\ config \in Configs
  /\ handled = None
  /\ constructed = None
  /\ repeat = None

HandlePostCreate ==
  /\ handled = None
  /\ \E request \in {None} \cup {Some(b) : b \in Bodies}, gateway \in GatewayOutcomes :
       handled' = Some([route |-> "POST /api/payment/create", request |-> request,
                        did |-> PostCreate(config, request, gateway)])
  /\ UNCHANGED config
  /\ UNCHANGED libraryVars

HandleGetCreate ==
  /\ handled = None
  /\ handled' = Some([route |-> "GET /api/payment/create", request |-> None,
                      did |-> GetCreate(config)])
  /\ UNCHANGED config
  /\ UNCHANGED libraryVars

HandlePostCheckout ==
  /\ handled = None
  /\ \E request \in {None} \cup {Some(b) : b \in WebhookBodies} :
       handled' = Some([route |-> "POST /api/payment/checkout", request |-> request,
                        did |-> PostCheckout(config, request)])
  /\ UNCHANGED config
  /\ UNCHANGED libraryVars

HandleGetCheckout ==
  /\ handled = None
  /\ handled' = Some([route |-> "GET /api/payment/checkout", request |-> None,
                      did |-> GetCheckout])
  /\ UNCHANGED config
  /\ UNCHANGED libraryVars

RouteNext ==
  \/ HandlePostCreate
  \/ HandleGetCreate
  \/ HandlePostCheckout
  \/ HandleGetCheckout

RouteSpec == RouteInit /\ [][RouteNext]_vars

\* ------------------------------------------------------------------------
\* Calls with a timestamp argument and an exclude set
\* ------------------------------------------------------------------------

\* Parameter maps of two callers, drawn independently of each other.
ArgsPlain ==
  DefineAll(<<>>, << [k |-> KeyAmount, v |-> Str(<<"1">>)],
                     [k |-> KeyNote,   v |-> Str(<<"1">>)] >>)

ArgsAmpersand ==
  DefineAll(<<>>, << [k |-> KeyAmount, v |-> Str(<<"1", "&", "n", "o", "t", "e", "=", "1">>)] >>)

ArgsNumbers ==
  DefineAll(<<>>, << [k |-> KeyNote,   v |-> Num(100)],
                     [k |-> KeyAmount, v |-> Num(100)] >>)

ArgsSigned ==
  DefineAll(<<>>, << [k |-> KeyAmount,    v |-> Num(100)],
                     [k |-> KeySign,      v |-> Str(<<"s", "1">>)],
                     [k |-> KeySignature, v |-> Str(<<"s", "2">>)],
                     [k |-> KeyTimestamp, v |-> Num(100 * NowStart)] >>)

ArgsFull ==
  DefineAll(<<>>, << [k |-> KeyExtra,  v |-> NestedBA],
                     [k |-> KeySign,   v |-> Str(<<"s", "1">>)],
                     [k |-> KeyNote,   v |-> Null],
                     [k |-> KeyEmail,  v |-> Arr(<<>>)],
                     [k |-> KeyAmount, v |-> Arr(<<Num(100), NestedAB>>)] >>)

ArgsBlankTimestamp ==
  DefineAll(<<>>, << [k |-> KeyTimestamp, v |-> Str(<<>>)],
                     [k |-> KeyAmount,    v |-> Num(100)] >>)

ArgsUnencodable ==
  DefineAll(<<>>, << [k |-> KeyAmount, v |-> Num(100)],
                     [k |-> KeyNote,   v |-> Str(<<LoneSurrogate>>)] >>)

ArgsParams ==
  { ParamsEmpty, ArgsPlain, ArgsAmpersand, ArgsNumbers, ArgsSigned, ArgsFull,
    ArgsBlankTimestamp, ArgsUnencodable }

\* The timestamp argument: omitted (null), or a number (in hundredths).
TimestampArgs == { None, Some(0), Some(100 * MaxNow) }

\* The excludeKeys argument: omitted (null), or a Set.
ExcludeArgs ==
  { None, Some({}), Some({KeySign}), Some({KeyTimestamp}),
    Some({KeyAmount, KeySign, KeySignature}) }

ArgsInit ==
  /\ secret \in Secrets
  /\ sent \in ArgsParams
  /\ received \in ArgsParams
  /\ signed = None
  /\ lastCall = None
  /\ config = [appId |-> <<>>, secret |-> <<>>, apiUrl |-> <<>>, isDebug |-> FALSE]
  /\ handled = None
  /\ constructed = Some([by |-> "new", arg |-> secret, threw |-> FALSE])
  /\ repeat = None

\* validator.generateSignature(params, timestamp, excludeKeys) on the sender's
\* map, and validator.generateSignature({...params, timestamp}, null,
\* excludeKeys) on a copy that carries the timestamp as a field.  The sender's
\* map and set are left as the first call leaves them.
SignWith ==
  /\ Usable
  /\ signed = None
  /\ \E T \in TimestampArgs, E \in ExcludeArgs :
       LET generated == generateSignature(secret, sent, T, E)
           withField == IF T = None THEN sent
                        ELSE SetProperty(sent, KeyTimestamp, Num(T[1]))
       IN  /\ signed' = Some([params |-> sent, timestamp |-> T, excludeKeys |-> E,
                              result |-> generated,
                              merged |-> generateSignature(secret, withField, None, E)])
           /\ sent' = generated.params
  /\ UNCHANGED <<secret, received, lastCall>>
  /\ UNCHANGED <<routeVars, constructed, repeat>>

\* validator.validate(params, signature[, tolerance]) on the verifying side's
\* map, which is left as the call leaves it.
ValidateWith ==
  /\ Usable
  /\ lastCall = None
  /\ \E s \in SuppliedSignatures(secret, signed), tol \in {None} \cup Tolerances :
       LET result == validate(secret, received, s, tol, NowStart)
       IN  /\ lastCall' = Some([op |-> "validate", params |-> received,
                                signature |-> s, tolerance |-> tol, at |-> NowStart,
                                generated |-> NoGenerated, result |-> result])
           /\ received' = result.params
  /\ UNCHANGED <<secret, sent, signed>>
  /\ UNCHANGED <<routeVars, constructed, repeat>>

ArgsNext == SignWith \/ ValidateWith \/ Resign

ArgsSpec == ArgsInit /\ [][ArgsNext]_vars

\* ------------------------------------------------------------------------
\* Properties
\* ------------------------------------------------------------------------

KeysOf(props) == {props[i].k : i \in 1..Len(props)}

\* The fields in which a signature travels.
SignatureFields == {<<"s", "i", "g", "n">>, <<"s", "i", "g", "n", "a", "t", "u", "r", "e">>}

\* null, undefined, '', [] and {}
IsEmptyValue(v) ==
  \/ v.t \in {"null", "undefined"}
  \/ (v.t = "string" /\ v.s = <<>>)
  \/ (v.t = "array" /\ v.items = <<>>)
  \/ (v.t = "object" /\ v.props = <<>>)

\* Equal as maps: the same names with the same values, nested maps compared
\* the same way, arrays element by element in order.
RECURSIVE SameValueUpToOrder(_, _)
SamePropsUpToOrder(p, q) ==
  /\ KeysOf(p) = KeysOf(q)
  /\ \A k \in KeysOf(p) : SameValueUpToOrder(GetProperty(p, k), GetProperty(q, k))

SameValueUpToOrder(v, w) ==
  IF v.t # w.t THEN FALSE
  ELSE IF v.t = "object" THEN SamePropsUpToOrder(v.props, w.props)
  ELSE IF v.t = "array"
  THEN /\ Len(v.items) = Len(w.items)
       /\ \A i \in 1..Len(v.items) : SameValueUpToOrder(v.items[i], w.items[i])
  ELSE v = w

\* p and q agree on every field outside `keys`.
DiffersOnlyInKeys(p, q, keys) ==
  \A k \in (KeysOf(p) \cup KeysOf(q)) \ keys :
    /\ HasProperty(p, k) = HasProperty(q, k)
    /\ GetProperty(p, k) = GetProperty(q, k)

\* The verifying side called validate (the round trips call it unless
\* signing threw).
Validated ==
  /\ lastCall # None
  /\ \/ lastCall[1].op = "validate"
     \/ (lastCall[1].op \in {"roundTrip", "quickRoundTrip"} /\ ~lastCall[1].generated.threw)

\* The verifying side recomputed the signature of what it received, after the
\* sender signed.
Recomputed ==
  /\ lastCall # None
  /\ lastCall[1].op = "generateSignature"
  /\ signed # None

SameOutcome(g, h) == g.threw = h.threw /\ g.sig = h.sig

\* C1 -- Round trip: a signature generated for a parameter map by a validator
\* (or by quickSign) is accepted by validate without a tolerance (or by
\* quickValidate) for the same map under the same secret.
RoundTripAccepted ==
  /\ (/\ lastCall # None
      /\ lastCall[1].op \in {"roundTrip", "quickRoundTrip"}
      /\ lastCall[1].tolerance = None
      /\ ~lastCall[1].generated.threw)
     => (~lastCall[1].result.threw /\ lastCall[1].result.ret)
  /\ (/\ Validated
      /\ lastCall[1].op = "validate"
      /\ lastCall[1].tolerance = None
      /\ signed # None
      /\ ~signed[1].result.threw
      /\ lastCall[1].params = signed[1].params
      /\ lastCall[1].signature = signed[1].result.sig)
     => (~lastCall[1].result.threw /\ lastCall[1].result.ret)

\* A round trip on a map that carries a signature field and a nested map.
RoundTripWitness ==
  /\ lastCall # None
  /\ lastCall[1].op = "roundTrip"
  /\ lastCall[1].tolerance = None
  /\ HasProperty(lastCall[1].params, KeySignature)
  /\ \E i \in 1..Len(lastCall[1].params) :
       lastCall[1].params[i].v.t = "object" /\ lastCall[1].params[i].v.props # <<>>
  /\ lastCall[1].result.ret

\* C2 -- Tamper detection: when the received map has the keys of the signed
\* map and differs from it in the value of exactly one retained key, validate
\* with the signature of the signed map does not return true, whatever the
\* kind of the change.
TamperDetected ==
  (/\ Validated
   /\ lastCall[1].op = "validate"
   /\ signed # None
   /\ ~signed[1].result.threw
   /\ lastCall[1].signature = signed[1].result.sig
   /\ KeysOf(lastCall[1].params) = KeysOf(signed[1].params)
   /\ \E k \in KeysOf(signed[1].params) :
        /\ k \notin SignatureFields
        /\ ~IsEmptyValue(GetProperty(signed[1].params, k))
        /\ GetProperty(lastCall[1].params, k) # GetProperty(signed[1].params, k)
        /\ DiffersOnlyInKeys(lastCall[1].params, signed[1].params, {k}))
  => ~lastCall[1].result.ret

\* C3 -- Order independence: a map that equals the signed map up to the
\* insertion order of its keys, at any depth, gets the same signature.
OrderIndependent ==
  (/\ Recomputed
   /\ SamePropsUpToOrder(lastCall[1].params, signed[1].params))
  => SameOutcome(lastCall[1].generated, signed[1].result)

\* A nested map whose members were inserted in another order was signed.
OrderIndependentWitness ==
  /\ Recomputed
  /\ SamePropsUpToOrder(lastCall[1].params, signed[1].params)
  /\ \E k \in KeysOf(signed[1].params) :
       /\ GetProperty(signed[1].params, k).t = "object"
       /\ GetProperty(lastCall[1].params, k) # GetProperty(signed[1].params, k)
  /\ ~lastCall[1].generated.threw
  /\ lastCall[1].generated.sig = signed[1].result.sig

\* C4 -- Replay window: with a tolerance and an integer timestamp t in the
\* map, validate returns false when |now - t| exceeds the tolerance, whatever
\* the signature, and the window check does not reject otherwise.
ReplayWindowEnforced ==
  (/\ Validated
   /\ lastCall[1].tolerance # None
   /\ GetProperty(lastCall[1].params, KeyTimestamp).t = "number"
   /\ GetProperty(lastCall[1].params, KeyTimestamp).c % 100 = 0)
  => LET t     == GetProperty(lastCall[1].params, KeyTimestamp).c
         stale == Abs(100 * lastCall[1].at - t) > 100 * lastCall[1].tolerance[1]
     IN  /\ stale => (~lastCall[1].result.threw /\ ~lastCall[1].result.ret)
         /\ ~stale => ~lastCall[1].result.windowRejected

\* C6 -- validate never raises: every call of validate returns.
ValidateNeverRaises == Validated => ~lastCall[1].result.threw

\* C7 -- A timestamp that is present but is neither a number nor parseable as
\* one makes validate with a tolerance return false, without throwing, even
\* for the right signature.
MalformedTimestampRejected ==
  (/\ Validated
   /\ lastCall[1].tolerance # None
   /\ HasProperty(lastCall[1].params, KeyTimestamp)
   /\ LET ts == GetProperty(lastCall[1].params, KeyTimestamp)
      IN  /\ \/ ts.t \in {"boolean", "object", "array"}
             \/ (ts.t = "string" /\ ts.s # <<>>)
          /\ ParseInt(ToStringJS(ts)).nan)
  => (~lastCall[1].result.threw /\ ~lastCall[1].result.ret)

\* The generateSignature calls on record.
GeneratedCalls ==
  (IF signed # None THEN {[params |-> signed[1].params, result |-> signed[1].result]} ELSE {})
  \cup (IF lastCall # None /\ lastCall[1].op \in {"generateSignature", "roundTrip", "quickRoundTrip"}
        THEN {[params |-> lastCall[1].params, result |-> lastCall[1].generated]} ELSE {})

\* C8 -- Emptiness filtering: a top-level key outside the exclude set is kept
\* for the canonical string exactly when its value is not null, undefined, '',
\* [] or {}; and a map that differs from the signed one only in empty-valued
\* keys gets the same signature.
EmptinessFiltering ==
  /\ \A g \in GeneratedCalls :
       KeysOf(g.result.filtered) =
         {k \in KeysOf(g.params) :
            k \notin SignatureFields /\ ~IsEmptyValue(GetProperty(g.params, k))}
  /\ (/\ Recomputed
      /\ \A k \in KeysOf(lastCall[1].params) \cup KeysOf(signed[1].params) :
           \/ /\ HasProperty(lastCall[1].params, k) = HasProperty(signed[1].params, k)
              /\ GetProperty(lastCall[1].params, k) = GetProperty(signed[1].params, k)
           \/ /\ IsEmptyValue(GetProperty(lastCall[1].params, k))
              /\ IsEmptyValue(GetProperty(signed[1].params, k)))
     => SameOutcome(lastCall[1].generated, signed[1].result)

\* C9 -- Exclusion of signature fields: a map that differs from the signed
\* map only in 'sign' and 'signature', whatever their values, gets the same
\* signature, and validate accepts it with the signature of the signed map.
SignatureFieldsExcluded ==
  /\ (/\ Recomputed
      /\ DiffersOnlyInKeys(lastCall[1].params, signed[1].params, SignatureFields))
     => SameOutcome(lastCall[1].generated, signed[1].result)
  /\ (/\ Validated
      /\ lastCall[1].op = "validate"
      /\ lastCall[1].tolerance = None
      /\ signed # None
      /\ ~signed[1].result.threw
      /\ lastCall[1].signature = signed[1].result.sig
      /\ DiffersOnlyInKeys(lastCall[1].params, signed[1].params, SignatureFields))
     => (~lastCall[1].result.threw /\ lastCall[1].result.ret)

\* A map carrying a non-empty 'signature' field the signed map lacks was
\* signed again.
SignatureFieldsExcludedWitness ==
  /\ Recomputed
  /\ ~HasProperty(signed[1].params, KeySignature)
  /\ ~IsEmptyValue(GetProperty(lastCall[1].params, KeySignature))
  /\ DiffersOnlyInKeys(lastCall[1].params, signed[1].params, SignatureFields)
  /\ ~lastCall[1].generated.threw
  /\ lastCall[1].generated.sig = signed[1].result.sig

\* C10 -- Unequal-length signatures fail closed: validate returns false and
\* does not throw when the supplied signature's length is not that of the
\* expected signature.
UnequalLengthRejected ==
  (/\ Validated
   /\ lastCall[1].signature.kind \in {"text", "hmac"}
   /\ ByteLength(lastCall[1].signature) # 64)
  => (~lastCall[1].result.threw /\ ~lastCall[1].result.ret)


\* The generateSignature calls the route made while handling the request.
RouteSignCalls ==
  IF handled = None THEN {}
  ELSE {handled[1].did.signCalls[i] : i \in 1..Len(handled[1].did.signCalls)}

\* C5 -- The shared secret is only the HMAC key: in every generateSignature
\* call the order-creation route makes, no field that is retained and signed
\* carries the secret as its value.
SecretNeverSigned ==
  \A call \in RouteSignCalls :
    \A i \in 1..Len(call.result.filtered) :
      call.result.filtered[i].v # Str(config.secret)


\* The secrets that are empty or all white space.
BlankSecretArgs == {<<>>, <<" ">>, <<" ", " ">>, <<"\t">>, <<" ", "\n">>}

\* C11 -- Construction-time secret check: constructing with an empty or
\* all-whitespace secret throws and leaves no usable instance (also through
\* the quick functions, which then return nothing); any other secret
\* constructs, and the instance's secret equals the argument in every later
\* state.
ConstructionChecked ==
  constructed # None =>
    LET c == constructed[1]
    IN  /\ c.arg \in BlankSecretArgs => (c.threw /\ ~Usable)
        /\ c.arg \notin BlankSecretArgs => ~c.threw
        /\ (c.by = "new" /\ c.arg \notin BlankSecretArgs) => (Usable /\ secret = c.arg)
        /\ (c.by = "quick" /\ c.arg \in BlankSecretArgs) =>
             (lastCall[1].generated.threw /\ lastCall[1].result.threw)
        /\ (c.by = "quick" /\ c.arg \notin BlankSecretArgs /\ ~lastCall[1].generated.threw) =>
             (lastCall[1].generated.sig.key = c.arg /\ lastCall[1].result.ret)

\* A validator constructed with a secret that starts with a space has signed
\* and validated, and a white-space secret was refused.
ConstructionWitness ==
  /\ Usable
  /\ constructed[1].arg = <<" ", "k">>
  /\ signed # None
  /\ signed[1].result.sig.key = <<" ", "k">>
  /\ lastCall # None
  /\ lastCall[1].op = "validate"
  /\ lastCall[1].result.ret


\* The window test of a validate call reads the clock: a tolerance is given
\* and the map carries a truthy timestamp.
ReadsClock(call) ==
  call.tolerance # None /\ Truthy(GetProperty(call.params, KeyTimestamp))

\* C12 (as stated) -- Idempotence of validate: a validate call repeated with
\* identical arguments returns the same boolean, whatever the time between
\* the two calls.
ValidateIdempotent ==
  repeat # None =>
    (/\ repeat[1].result.threw = repeat[1].first.result.threw
     /\ repeat[1].result.ret = repeat[1].first.result.ret)

\* C12 (amended) -- A validate call repeated with identical arguments has the
\* same outcome whenever no tolerance is given, or the map carries no truthy
\* timestamp, or the clock reads the same second in both calls.
ValidateIdempotentOffClock ==
  (/\ repeat # None
   /\ (~ReadsClock(repeat[1].first) \/ repeat[1].at = repeat[1].first.at))
  => (/\ repeat[1].result.threw = repeat[1].first.result.threw
      /\ repeat[1].result.ret = repeat[1].first.result.ret)

\* A validate call with a tolerance on a map without a timestamp returned
\* true twice, a second apart.
ValidateIdempotentWitness ==
  /\ repeat # None
  /\ repeat[1].first.tolerance # None
  /\ ~ReadsClock(repeat[1].first)
  /\ repeat[1].at > repeat[1].first.at
  /\ repeat[1].first.result.ret
  /\ repeat[1].result.ret


\* How often the character c occurs in s.
Occurrences(s, c) == Cardinality({i \in 1..Len(s) : s[i] = c})

\* The spaces in the keys and the normalized values of the retained pairs.
RECURSIVE SpacesIn(_)
SpacesIn(props) ==
  IF props = <<>> THEN 0
  ELSE Occurrences(Head(props).k, " ")
       + Occurrences(_normalizeValue(Head(props).v), " ")
       + SpacesIn(Tail(props))

\* C13 -- Space encoding: in the signing string every space of a key or of a
\* normalized value is encoded as '+' (a literal '+' is escaped, so the
\* string holds one '+' per space).
SpacesEncodedAsPlus ==
  \A g \in GeneratedCalls :
    ~g.result.threw =>
      Occurrences(g.result.signString, "+") = SpacesIn(g.result.filtered)


\* The value is the text s, or a map or array holding such a value.
RECURSIVE Carries(_, _)
Carries(v, s) ==
  CASE v.t = "string" -> v.s = s
    [] v.t = "object" -> \E i \in 1..Len(v.props) : Carries(v.props[i].v, s)
    [] v.t = "array"  -> \E i \in 1..Len(v.items) : Carries(v.items[i], s)
    [] OTHER          -> FALSE

\* C14 -- Secret confidentiality in the routes: handling a GET or POST of
\* /api/payment/create writes the configured secret to no log line and puts
\* it in no response body.
SecretNeverLogged ==
  (/\ handled # None
   /\ handled[1].route \in {"GET /api/payment/create", "POST /api/payment/create"}
   /\ ~SecretIsBlank(config.secret)) =>
    LET did == handled[1].did
    IN  /\ \A i \in 1..Len(did.logged) : ~Carries(did.logged[i], config.secret)
        /\ ~Carries(Obj(did.response.body), config.secret)


\* The route answered a POST of /api/payment/create.
PostCreateHandled ==
  handled # None /\ handled[1].route = "POST /api/payment/create"

\* C15 -- Debug-only signature echo: a response of POST /api/payment/create
\* has a signature field only when IS_DEBUG is true, and then it is the
\* generated signature; with the flag false no response has the field.
SignatureEchoOnlyInDebug ==
  PostCreateHandled =>
    LET did  == handled[1].did
        body == did.response.body
    IN  /\ HasProperty(body, KeySignature) =>
             /\ config.isDebug
             /\ Len(did.signCalls) = 1
             /\ GetProperty(body, KeySignature) = SigValue(did.signCalls[1].result.sig)
        /\ (config.isDebug /\ did.response.status = 200) =>
             HasProperty(body, KeySignature)

\* With the flag false the gateway's answer carried a signature field of its
\* own and the response has none.
SignatureEchoWitness ==
  /\ PostCreateHandled
  /\ handled[1].did.response.status = 200
  /\ Len(handled[1].did.gatewayCalls) = 1
  /\ ~config.isDebug
  /\ ~HasProperty(handled[1].did.response.body, KeySignature)
  /\ GetProperty(handled[1].did.response.body, KeySuccess) = Bool(FALSE)


\* The route answered a POST of /api/payment/checkout whose body parsed.
WebhookHandled ==
  /\ handled # None
  /\ handled[1].route = "POST /api/payment/checkout"
  /\ handled[1].request # None

\* The request was answered as processed: 200, success: true, or a branch of
\* the status handling ran.
WebhookProcessed ==
  \/ handled[1].did.response.status = 200
  \/ GetProperty(handled[1].did.response.body, KeySuccess) = Bool(TRUE)
  \/ handled[1].did.statusHandled # ""

\* The handler verified the signature of the body it received.
WebhookVerified ==
  /\ Len(handled[1].did.validateCalls) = 1
  /\ handled[1].did.validateCalls[1].params = handled[1].request[1]
  /\ handled[1].did.validateCalls[1].signature =
       SignatureArgument(GetProperty(handled[1].request[1], KeySignature))

\* C16 -- Webhook authentication gate: a webhook is processed (status
\* handling, 200, success: true) only when validate(body, body.signature)
\* returned true; a request whose signature fails verification is answered
\* 401 with success: false and no status handling.
WebhookGate ==
  WebhookHandled =>
    /\ WebhookProcessed =>
         (WebhookVerified /\ handled[1].did.validateCalls[1].result.ret)
    /\ (WebhookVerified /\ ~handled[1].did.validateCalls[1].result.ret) =>
         /\ handled[1].did.response.status = 401
         /\ GetProperty(handled[1].did.response.body, KeySuccess) = Bool(FALSE)
         /\ handled[1].did.statusHandled = ""




\* The webhook was authenticated and answered.
WebhookAuthenticated ==
  /\ WebhookHandled
  /\ handled[1].did.response.status = 200

\* C17 -- payment_status decoding: for an authenticated webhook status_text
\* is COMPLETED for 1, UNPAID for 0, FAILED for -1, TIMEOUT for -2 and UNKNOWN
\* for any other value, and is_payment_complete is true exactly for the
\* number 1.
PaymentStatusDecoded ==
  WebhookAuthenticated =>
    LET status == GetProperty(handled[1].request[1], KeyPaymentStatus)
        data   == GetProperty(handled[1].did.response.body, KeyData).props
        text   == GetProperty(data, KeyStatusText)
    IN  /\ status = Num(100)  => text = Str(<<"C", "O", "M", "P", "L", "E", "T", "E", "D">>)
        /\ status = Num(0)    => text = Str(<<"U", "N", "P", "A", "I", "D">>)
        /\ status = Num(-100) => text = Str(<<"F", "A", "I", "L", "E", "D">>)
        /\ status = Num(-200) => text = Str(<<"T", "I", "M", "E", "O", "U", "T">>)
        /\ status \notin {Num(100), Num(0), Num(-100), Num(-200)} => text = Str(<<"U", "N", "K", "N", "O", "W", "N">>)
        /\ GetProperty(data, KeyIsComplete) = Bool(status = Num(100))

\* An authenticated webhook whose payment_status is the string '1' was
\* answered UNKNOWN and not complete.
PaymentStatusWitness ==
  /\ WebhookAuthenticated
  /\ GetProperty(handled[1].request[1], KeyPaymentStatus) = Str(<<"1">>)
  /\ GetProperty(GetProperty(handled[1].did.response.body, KeyData).props,
                 KeyStatusText) = Str(<<"U", "N", "K", "N", "O", "W", "N">>)
  /\ GetProperty(GetProperty(handled[1].did.response.body, KeyData).props,
                 KeyIsComplete) = Bool(FALSE)


\* The compact JSON text of a value with the keys of every nested map in
\* lexicographic order and the elements of every array in the order given.
RECURSIVE LexicographicJSON(_)
LexicographicJSON(v) ==
  CASE v.t = "array"  ->
         <<"[">> \o JoinWith([i \in 1..Len(v.items) |-> LexicographicJSON(v.items[i])],
                             <<",">>)
                 \o <<"]">>
    [] v.t = "object" ->
         LET kept == SelectSeq(v.props, LAMBDA p : p.v.t # "undefined")
             keys == SortStrings([i \in 1..Len(kept) |-> kept[i].k])
         IN  <<"{">> \o JoinWith([i \in 1..Len(keys) |->
                                    QuoteJSON(keys[i]) \o <<":">>
                                    \o LexicographicJSON(GetProperty(kept, keys[i]))],
                                 <<",">>)
                     \o <<"}">>
    [] OTHER          -> JSONStringify(v)

\* C19 -- Nested canonical form: the normalized form of a retained map or
\* array lists the keys of every nested map, at every depth, in lexicographic
\* order, whatever the key names, and the elements of arrays in order.
NestedKeysLexicographic ==
  \A g \in GeneratedCalls :
    \A i \in 1..Len(g.result.filtered) :
      LET v == g.result.filtered[i].v
      IN  v.t \in {"object", "array"} => _normalizeValue(v) = LexicographicJSON(v)


\* The pieces of s between the occurrences of the separator c.
RECURSIVE SplitAt(_, _)
SplitAt(s, c) ==
  IF \A i \in 1..Len(s) : s[i] # c THEN <<s>>
  ELSE LET i == CHOOSE j \in 1..Len(s) : s[j] = c /\ \A h \in 1..(j - 1) : s[h] # c
       IN  <<SubSeq(s, 1, i - 1)>> \o SplitAt(SubSeq(s, i + 1, Len(s)), c)

\* The pair 'key=value' of a retained key, both sides percent-encoded.
PairOf(props, k) ==
  EncodeURIComponent(k) \o <<"=">>
    \o EncodeURIComponent(_normalizeValue(GetProperty(props, k)))

\* C20 -- Canonical string layout: the signing string is one 'key=value'
\* pair per retained key, the pairs in ascending lexicographic order of the
\* keys, joined by '&' with none leading or trailing; with no retained key it
\* is the empty string and a signature is still returned.
CanonicalLayout ==
  \A g \in GeneratedCalls :
    ~g.result.threw =>
      LET f      == g.result.filtered
          s      == g.result.signString
          pieces == SplitAt(s, "&")
          keyOf(i) == CHOOSE k \in KeysOf(f) : pieces[i] = PairOf(f, k)
      IN  /\ Len(f) = 0 => s = <<>>
          /\ Len(f) > 0 =>
               /\ Len(pieces) = Len(f)
               /\ \A i \in 1..Len(pieces) :
                    /\ \E k \in KeysOf(f) : pieces[i] = PairOf(f, k)
                    /\ Occurrences(pieces[i], "=") = 1
               /\ \A i \in 1..(Len(pieces) - 1) : StrLess(keyOf(i), keyOf(i + 1))
          /\ g.result.sig = Hmac(secret, s)
          /\ ByteLength(g.result.sig) = 64

\* The empty map was signed (empty signing string, a signature all the
\* same), and a map whose one retained value holds '&' was signed after it.
CanonicalLayoutWitness ==
  /\ signed # None
  /\ signed[1].result.filtered = <<>>
  /\ signed[1].result.signString = <<>>
  /\ signed[1].result.sig.kind = "hmac"
  /\ Recomputed
  /\ ~lastCall[1].generated.threw
  /\ \E i \in 1..Len(lastCall[1].generated.filtered) :
       lastCall[1].generated.filtered[i].v = Str(<<"a", "&", "b">>)
  /\ Occurrences(lastCall[1].generated.signString, "&") = 0


\* The position of a step in the record of what a call did; 0 when absent.
StepIndex(steps, name) ==
  IF \E i \in 1..Len(steps) : steps[i] = name
  THEN CHOOSE i \in 1..Len(steps) : steps[i] = name
  ELSE 0

\* C21 -- Fail fast on staleness: a validate call rejected by the window check
\* computes no HMAC and builds no signing string; every other validate call
\* computes the HMAC exactly once, and before the comparison.
FailFastOnStaleness ==
  Validated =>
    LET r == lastCall[1].result
    IN  /\ r.windowRejected =>
             /\ r.hmacs = 0
             /\ StepIndex(r.steps, "createHmac") = 0
             /\ StepIndex(r.steps, "_buildSignString") = 0
        /\ ~r.windowRejected =>
             /\ r.hmacs = 1
             /\ Occurrences(r.steps, "createHmac") = 1
             /\ StepIndex(r.steps, "createHmac") < StepIndex(r.steps, "timingSafeEqual")


\* C22 -- No mutation of caller data: after generateSignature and after
\* validate, whether it returned true, returned false or threw, the caller's
\* params map is as it was passed (same keys in the same order, same values,
\* nested maps and arrays included, excluded and empty keys still there), the
\* excludeKeys set is as it was passed, and the validator's secret is the one
\* it was constructed with.
NoMutationOfCallerData ==
  /\ signed # None =>
       /\ signed[1].result.params = signed[1].params
       /\ signed[1].result.excludeKeys = signed[1].excludeKeys
       /\ sent = signed[1].params
  /\ lastCall # None =>
       /\ lastCall[1].op = "validate" => lastCall[1].result.params = lastCall[1].params
       /\ lastCall[1].op = "generateSignature" =>
            lastCall[1].generated.params = lastCall[1].params
       /\ received = lastCall[1].params
  /\ secret = constructed[1].arg

\* generateSignature with an exclude set, then validate returning true, both
\* on a map with an excluded key, empty keys and nested values.
NoMutationWitness ==
  /\ signed # None
  /\ signed[1].params = ArgsFull
  /\ signed[1].excludeKeys = Some({KeySign})
  /\ Validated
  /\ lastCall[1].params = ArgsFull
  /\ lastCall[1].result.ret


\* The (key, normalized value) pairs of a filtered map.
RetainedPairs(filtered) ==
  { <<k, _normalizeValue(GetProperty(filtered, k))>> : k \in KeysOf(filtered) }

\* C23 -- The canonical string is injective on the retained pairs: two maps
\* whose sets of (key, normalized value) pairs differ after filtering have
\* different signing strings, also when a value contains '&' or '='.
CanonicalStringInjective ==
  (/\ Recomputed
   /\ ~signed[1].result.threw
   /\ ~lastCall[1].generated.threw
   /\ RetainedPairs(signed[1].result.filtered)
        # RetainedPairs(lastCall[1].generated.filtered))
  => signed[1].result.signString # lastCall[1].generated.signString

\* One map whose value reads '1&note=1' and one with the keys amount and note.
CanonicalStringInjectiveWitness ==
  /\ Recomputed
  /\ signed[1].params = ArgsAmpersand
  /\ signed[1].timestamp = None
  /\ lastCall[1].params = ArgsPlain
  /\ ~signed[1].result.threw
  /\ signed[1].result.signString # lastCall[1].generated.signString


\* C24 -- The replay check is conditional on the timestamp field: validate
\* called with a tolerance, 0 included, on a map without a timestamp field
\* makes no window check, and returns true exactly when the supplied
\* signature is the expected one.
ReplayCheckNeedsTimestampField ==
  (/\ Validated
   /\ lastCall[1].op = "validate"
   /\ lastCall[1].tolerance # None
   /\ ~HasProperty(lastCall[1].params, KeyTimestamp))
  => LET r        == lastCall[1].result
         expected == generateSignature(secret, lastCall[1].params, None, None)
     IN  /\ ~r.windowRejected
         /\ StepIndex(r.steps, "_checkTimestamp") = 0
         /\ r.ret <=> (~expected.threw /\ lastCall[1].signature = expected.sig)

\* validate with tolerance 0 accepting the right signature of a map without
\* a timestamp field.
ReplayCheckNeedsTimestampFieldWitness ==
  /\ Validated
  /\ lastCall[1].op = "validate"
  /\ lastCall[1].tolerance = Some(0)
  /\ ~HasProperty(lastCall[1].params, KeyTimestamp)
  /\ lastCall[1].params # <<>>
  /\ lastCall[1].result.ret


\* generateSignature was called with a non-null timestamp argument.
SignedWithTimestamp == signed # None /\ signed[1].timestamp # None

\* C25 (as stated) -- Timestamp argument: generateSignature(P, T, E) with a
\* non-null T equals generateSignature(P', null, E) where P' is P with its
\* timestamp field set to T, whether P has no timestamp, has another one, or
\* the exclude set contains 'timestamp'.
TimestampArgumentIsField ==
  SignedWithTimestamp => SameOutcome(signed[1].result, signed[1].merged)

\* C25 (amended) -- generateSignature(P, T, E) with a non-null T equals
\* generateSignature(P', null, E), where P' is P with its timestamp field set
\* to T, whenever the exclude set in force does not contain 'timestamp'; when
\* it does, the argument T is signed all the same while the field of P' is
\* excluded, and the two signatures differ.
TimestampArgumentIsFieldUnlessExcluded ==
  SignedWithTimestamp =>
    LET excluded == /\ signed[1].excludeKeys # None
                    /\ KeyTimestamp \in signed[1].excludeKeys[1]
    IN  /\ ~excluded => SameOutcome(signed[1].result, signed[1].merged)
        /\ excluded =>
             /\ HasProperty(signed[1].result.filtered, KeyTimestamp)
             /\ ~HasProperty(signed[1].merged.filtered, KeyTimestamp)
             /\ (~signed[1].result.threw => signed[1].result.sig # signed[1].merged.sig)

\* The argument wins over a different timestamp field of the map.
TimestampArgumentWitness ==
  /\ SignedWithTimestamp
  /\ signed[1].params = ArgsSigned
  /\ signed[1].timestamp = Some(100 * MaxNow)
  /\ signed[1].excludeKeys = None
  /\ ~signed[1].result.threw
  /\ GetProperty(signed[1].result.filtered, KeyTimestamp) = Num(100 * MaxNow)
  /\ signed[1].result.sig = signed[1].merged.sig


\* generateSignature was called with an exclude set of the caller's.
SignedWithExcludeSet == signed # None /\ signed[1].excludeKeys # None

\* C26 -- A custom exclude set replaces the default: generateSignature called
\* with a set E excludes every key in E, and keeps a non-empty sign or
\* signature field that E does not contain; validate always recomputes with
\* the default set, so it accepts a signature made with E and no timestamp
\* argument, for the same map, exactly when E and the default set kept the
\* same keys of it.
CustomExcludeSetReplacesDefault ==
  /\ SignedWithExcludeSet =>
       LET E == signed[1].excludeKeys[1]
           P == signed[1].params
           F == signed[1].result.filtered
       IN  /\ \A k \in E :
                HasProperty(F, k) => (k = KeyTimestamp /\ signed[1].timestamp # None)
           /\ \A k \in DefaultExcludeKeys \ E :
                (HasProperty(P, k) /\ ~IsEmptyValue(GetProperty(P, k)))
                  => (HasProperty(F, k) /\ GetProperty(F, k) = GetProperty(P, k))
  /\ (/\ SignedWithExcludeSet
      /\ signed[1].timestamp = None
      /\ ~signed[1].result.threw
      /\ Validated
      /\ lastCall[1].op = "validate"
      /\ lastCall[1].tolerance = None
      /\ lastCall[1].params = signed[1].params
      /\ lastCall[1].signature = signed[1].result.sig)
     => (lastCall[1].result.ret
           <=> KeysOf(signed[1].result.filtered)
                 = {k \in KeysOf(signed[1].params) \ DefaultExcludeKeys :
                      ~IsEmptyValue(GetProperty(signed[1].params, k))})

\* Signed with the set {'sign'}: the signature field is kept in the signed
\* string, and validate, which drops it, refuses the signature.
CustomExcludeSetWitness ==
  /\ SignedWithExcludeSet
  /\ signed[1].params = ArgsSigned
  /\ signed[1].timestamp = None
  /\ signed[1].excludeKeys = Some({KeySign})
  /\ HasProperty(signed[1].result.filtered, KeySignature)
  /\ ~HasProperty(signed[1].result.filtered, KeySign)
  /\ Validated
  /\ lastCall[1].params = ArgsSigned
  /\ lastCall[1].tolerance = None
  /\ lastCall[1].signature = signed[1].result.sig
  /\ ~lastCall[1].result.ret


\* The request body passes the three checks the route announces.
PassesCreateChecks(request) ==
  /\ request # None
  /\ LET body == request[1]
     IN  /\ Truthy(GetProperty(body, KeyUserName))
         /\ Truthy(GetProperty(body, KeyEmail))
         /\ Truthy(GetProperty(body, KeyAmount))
         /\ ~ToNumber(GetProperty(body, KeyAmount)).nan
         /\ ToNumber(GetProperty(body, KeyAmount)).c > 0
         /\ EmailMatches(ToStringJS(GetProperty(body, KeyEmail)))

\* C27 -- Order-creation gating: POST /api/payment/create calls the gateway
\* at most once, and only for a request that has user_name, email and amount,
\* an amount greater than 0 and a well-formed email, after one signature was
\* generated for the outgoing parameters; a request failing a check gets 400
\* with no signature generated and no gateway call; a blank configured secret
\* gets 500 with no gateway call.
OrderCreationGated ==
  PostCreateHandled =>
    LET did     == handled[1].did
        request == handled[1].request
    IN  /\ Len(did.gatewayCalls) <= 1
        /\ Len(did.gatewayCalls) = 1 =>
             /\ PassesCreateChecks(request)
             /\ Len(did.signCalls) = 1
             /\ ~did.signCalls[1].result.threw
             /\ GetProperty(did.gatewayCalls[1], KeySignature)
                  = SigValue(did.signCalls[1].result.sig)
        /\ (request # None /\ ~PassesCreateChecks(request)) =>
             /\ did.response.status = 400
             /\ did.signCalls = <<>>
             /\ did.gatewayCalls = <<>>
        /\ (PassesCreateChecks(request) /\ SecretIsBlank(config.secret)) =>
             /\ did.response.status = 500
             /\ did.gatewayCalls = <<>>

====
